---- MODULE Spec2Model ----
(***************************************************************************)
(* A model of the relay router of service_router/router.py: the upload     *)
(* reassembler, the response streamer and the bridge send queue of a       *)
(* RelayNode, the port-isolation firewall, and the Router's assignment     *)
(* map with seed rotation.                                                 *)
(*                                                                         *)
(* Time is the integer number of seconds read by time.time(); payloads are *)
(* byte strings after base64 decoding (a chunk message carries the flag    *)
(* b64ok telling whether b64decode succeeded).                             *)
(***************************************************************************)
EXTENDS Integers, Sequences, FiniteSets, TLC

\* ------------------------------------------------------------------ bounds
MaxTime == 23
MaxTotal == 2
MaxArrivals == 3
MaxJobs == 1
PermLen == 3
MaxStreams == 2
MaxChunks == 2
MaxResends == 1
MaxRequests == 3
MaxStreaks == 2
MaxRouterTime == 121
MaxChildren == 3
MaxStarts == 2
MaxMsgs == 5
MaxBodyLen == 4
MaxWorkJobs == 2
ClientUntil == 3

\* ------------------------------------------------- configuration constants
\* http.chunk_upload_b of the node configuration, scaled to the byte strings
\* of the model (the shipped default is 600 * 1024).
chunk_upload_b == 2

\* _finalize_upload: the grace after end (2.0) and the gap between resend requests (1.0)
GraceS == 2
ResendGapS == 1
\* _upload_cleanup_loop: its thresholds and its period
StaleS == 20
SweepGraceS == 2
GiveUpS == 10
SweepPeriodS == 2

\* _register_rate_limit_hit: a streak of 429 responses this long calls the Router.
RateLimitS == 60

\* Scaled configuration values (defaults 2000 and 24).
SEND_QUEUE_MAX == 2
batch_lines == 2

\* RelayNode.batch_latency (by default 0.08 s), in units of 40 ms.
batch_latency == 2

\* The lines of a streamed body and the time a stream lasts, in units of 40 ms.
MaxLines == 4
MaxClock == 6

\* The bridge's restart delays, counted in half seconds (0.5 s and 30 s).
BRIDGE_MIN_S == 1
BRIDGE_MAX_S == 60

\* RelayNode.max_body, in bytes.
max_body == 2

\* RelayNode.retry_attempts: the attempts _http_request_with_retry makes (by default 4).
retry_attempts == 4

\* RelayNode.retry_backoff and retry_cap, in half seconds: the default backoff of 0.5 s
\* and a cap of 1.5 s, configured below the default of 4.0 s so that it binds within
\* retry_attempts attempts.
retry_backoff == 1
retry_cap == 3

UploadIds == {"u1"}
Srcs == {"cA"}
UploadRids == {"r1"}
Reqs == {"", "req"}

None == <<-1>>
Full == [i \in 1..chunk_upload_b |-> 0]
Over == [i \in 1..(chunk_upload_b + 1) |-> 0]
\* The b64 fields of the chunk messages, decoded; BadB64 is one b64decode raises on.
BadB64 == <<-2>>
Payloads == {<<1>>, Full, Over}
ChunkTotals == {0, MaxTotal}
TickSteps == {2}

VARIABLES
  now,               \* time.time()
  upload_sessions,   \* RelayNode.upload_sessions: upload_id -> entry
  jobs,              \* RelayNode.jobs
  emitted,           \* the messages handed to bridge.dm by the last step, in order
  sweep_todo,        \* the sweeper's to_retry ++ to_finish ++ to_error still to apply
  sweep_next,        \* the time at which upload_cleanup_stop.wait(2.0) returns
  sweep_raced,       \* a message was handled since the cleanup loop built its lists
  up_event,          \* the upload message or sweeper item handled by the last step
  up_final,          \* the session and body of the last finalization, if the last step finalized
  up_by_seq,         \* history: upload_id -> the payload last accepted for each sequence number since the session began
  up_live,           \* history: upload_id -> a session was created and not yet finalized, timed out or rejected
  up_named,          \* history: upload_id -> some message named it since its last finalization or timeout
  up_asked,          \* history, for the upload ids it is kept for: upload_id -> when the first
                     \* http.upload.missing of its session was emitted, or 0
  up_promoted        \* history, for the upload ids it is kept for: upload_id -> the jobs
                     \* enqueued from the session last created under it

VARIABLES
  perm_in,           \* an upload and an arrival order of its chunks: [total, raws, order]
  perm_a,            \* the node that receives the chunks of perm_in in ascending seq
  perm_b,            \* the node that receives them in the order perm_in.order
  perm_pc            \* the number of messages of the upload both nodes have handled

permVars == <<perm_in, perm_a, perm_b, perm_pc>>

VARIABLES
  st_worker,         \* worker -> its position in _handle_stream and the locals of the streamer
  send_q,            \* BridgeManager.send_q
  written,           \* history: the records _sender_loop wrote to the bridge child, in order
  response_cache,    \* RelayNode.response_cache: request id -> the cache entry (named by its response)
  cache_chunks,      \* response -> the chunks dict of the cache entry _stream_chunks made for it
  cache_timers,      \* the request ids a threading.Timer(5.0) has still to pop from the cache
  st_log,            \* history: response -> what was handed to dm for it: seqs, last_seq of its ends
  st_resends,        \* the number of relay.response.missing messages handled
  st_missing           \* history: the last relay.response.missing handled and what it re-emitted

VARIABLES
  rq_busy,           \* worker -> the job _http_worker took and is processing, if any
  rq_out,            \* history: the messages the node handed to dm for request messages and jobs
  rq_seen,           \* history: request id -> the number of request messages received with it
  rq_completed,      \* history: request id -> the number of jobs completed with it
  rq_event           \* the request message handled by the last step

requestVars == <<rq_busy, rq_out, rq_seen, rq_completed, rq_event>>

VARIABLES
  rt_obj,              \* the RelayNode objects ever made, by seed: primary_service, running, rate_limit_since,
                       \* and as history, where it is kept: first, the time of the first 429
                       \* response since the last response that was not 429
  rt_nodes,            \* Router.nodes
  service_nodes,       \* Router.service_nodes: service -> RelayNode
  service_assignments, \* Router.service_assignments, as the set of its (service, node id) items
  rate_limit_state,    \* Router.rate_limit_state: service -> pending
  rt_callers,          \* the workers inside _on_rate_limit that have read pending as false
  rt_threads,          \* the _rotate_service_address threads and their positions
  rt_due,              \* history: service -> the node serving it when the Router accepted that node's 60 s streak,
                       \* forgotten when the operator moves the service
  rt_streaks,          \* the number of 429 responses handled with a streak of 60 s or more
  node_addresses       \* Router.node_addresses: node id -> overlay address, NoAddr when not known

routerVars == <<rt_obj, rt_nodes, service_nodes, service_assignments, rate_limit_state,
                rt_callers, rt_threads, rt_due, rt_streaks, node_addresses>>

VARIABLES
  SERVICE_TARGETS,        \* the module's SERVICE_TARGETS: service -> ports and endpoint (as ports)
  targets,                \* RelayNode.targets of the node: name -> port of the base URL
  port_isolation_enabled, \* ui.port_isolation_enabled
  pt_last                 \* history: the outcome of the last _process_request

portVars == <<SERVICE_TARGETS, targets, port_isolation_enabled, pt_last>>

VARIABLES
  rd_jobs,             \* the jobs queue of each node
  rd_event,            \* history: the last message handled or job processed, and what came of it
  rd_pending           \* history: the redirect the client has got and not yet followed

redirectVars == <<rd_jobs, rd_event, rd_pending>>

VARIABLES
  br_children,         \* the child processes spawned so far: "alive" or "dead"
  br_proc,             \* BridgeManager.proc: the index of a child, 0 for None
  br_stop,             \* BridgeManager.stop
  br_backoff,          \* BridgeManager.backoff
  br_ready,            \* the argument of the last on_ready call (NoAddr for None)
  br_addr,             \* BridgeManager.addr: the address of the last ready message, "" since a spawn
  br_threads,          \* the stdout readers and the delayed restart threads that run
  br_delays,           \* history: the restart delays chosen since the last ready
  br_starts,           \* the number of start() calls made by RelayNode.start
  br_event             \* history: the last start() call

bridgeVars == <<br_children, br_proc, br_stop, br_backoff, br_ready, br_addr, br_threads, br_delays,
                br_starts, br_event>>

VARIABLES
  dq,                  \* BridgeManager.send_q while several threads call dm
  dq_callers,          \* where each thread that calls dm is in it, and its payload
  dq_next,             \* the number of dm calls begun; the payload of a call is its number
  dq_event             \* history: the last dm call that returned

dmVars == <<dq, dq_callers, dq_next, dq_event>>

VARIABLES
  sr_resp,             \* the upstream response a worker is about to relay, or <<>>
  sr_event             \* history: the last relay.response built from an upstream response

simpleVars == <<sr_resp, sr_event>>

VARIABLES
  wk_jobs,             \* RelayNode.jobs: the jobs put, each as <<job>>, and <<>> for the None of stop()
  wk_put,              \* the number of jobs put
  wk_pc,               \* where the worker is: "get", "request", "stream" or "exited"
  wk_cur,              \* the job the worker processes as <<job>>, <<>> for none
  wk_attempt,          \* attempt of _http_request_with_retry
  wk_mode,             \* the stream mode of the response the worker streams
  wk_seq,              \* the chunks or batches sent of that response
  wk_stopped,          \* whether RelayNode.stop ran
  wk_log               \* history: the job the worker took last, the attempts made for it, the
                       \* statuses the target answered, the messages handed to dm, in order,
                       \* and what failed: the service was unknown, port isolation rejected
                       \* the URL, every attempt raised ("transport"), the body of a 429
                       \* answer could not be read ("body"), or that of a stream ("stream")

workerVars == <<wk_jobs, wk_put, wk_pc, wk_cur, wk_attempt, wk_mode, wk_seq, wk_stopped, wk_log>>

\* The Router's copy of the targets and the flag that makes it save its configuration.
VARIABLES
  router_targets,      \* Router.targets: target key -> the port of the target's URL
  config_dirty         \* Router.config_dirty

configVars == <<router_targets, config_dirty>>

\* One call of RelayNode._stream_lines, with its clock.
VARIABLES
  ln_pc,               \* "read" inside the loop over the body, "done" or "failed" after it
  ln_clock,            \* time.time(), in units of 40 ms
  ln_last_flush,       \* last_flush
  ln_batch,            \* batch: the seq numbers of the lines that wait
  ln_seq,              \* seq: the non-empty lines read
  ln_sent              \* history: the batches handed to bridge.dm, in order

linesVars == <<ln_pc, ln_clock, ln_last_flush, ln_batch, ln_seq, ln_sent>>

\* The parts of the model added after the worker's loop.
lateVars == <<configVars, linesVars>>

\* The parts of the model added after the single response.
moreVars == <<workerVars, lateVars>>

\* The parts of the model added after the assignment check.
laterVars == <<bridgeVars, dmVars, simpleVars, moreVars>>

\* The parts of the model added after the first six.
restVars == <<redirectVars, laterVars>>

streamVars == <<st_worker, send_q, written, response_cache, cache_chunks, cache_timers,
                st_log, st_resends, st_missing>>

uploadVars == <<upload_sessions, jobs, emitted, sweep_todo, sweep_next, sweep_raced,
                up_event, up_final, up_by_seq, up_live, up_named, up_asked, up_promoted>>
baseVars == <<uploadVars, permVars, streamVars, requestVars, routerVars, portVars, redirectVars>>

vars == <<now, uploadVars, permVars, streamVars, requestVars, routerVars, portVars, restVars>>

\* ------------------------------------------------------------------ helpers
DictPut(d, k, v) == [x \in (DOMAIN d) \cup {k} |-> IF x = k THEN v ELSE d[x]]
DictPop(d, k) == [x \in (DOMAIN d) \ {k} |-> d[x]]
EmptyDict == [x \in {} |-> 0]

RECURSIVE Concat(_)
Concat(ss) == IF ss = <<>> THEN <<>> ELSE Head(ss) \o Concat(Tail(ss))

RECURSIVE SetToSeq(_)
SetToSeq(S) ==
  IF S = {} THEN <<>>
  ELSE LET m == CHOOSE x \in S : \A y \in S : x <= y IN <<m>> \o SetToSeq(S \ {m})

\* A set of upload ids as a sequence, in the order the dict iterates them.
RECURSIVE SetToSeqStr(_)
SetToSeqStr(S) ==
  IF S = {} THEN <<>>
  ELSE LET m == CHOOSE x \in S : TRUE IN <<m>> \o SetToSeqStr(S \ {m})

NotNone(ss) == SelectSeq(ss, LAMBDA ch : ch # None)

\* ------------------------------------------------------- upload reassembler
\* The effect of a handler is computed on a bundle U: s the session table, j the
\* job queue, o the messages handed to bridge.dm, p the entries popped from the table.
UState(s, j) == [s |-> s, j |-> j, o |-> <<>>, p |-> <<>>]

NewEntry(src, rid, req, total) ==
  [src |-> src, rid |-> rid, req |-> req,
   chunks |-> [i \in 1..total |-> None], total |-> total, got |-> 0,
   ended |-> FALSE, created |-> now, end_received_time |-> 0, missing_requested |-> 0]

Missing(entry) == {i \in 1..Len(entry.chunks) : entry.chunks[i] = None}

UploadError(src, rid, message, status) ==
  [event |-> "relay.response", to |-> src, id |-> rid, ok |-> FALSE,
   status |-> status, error |-> message]

SendUploadError(U, src, rid, message, status) ==
  [U EXCEPT !.o = Append(@, UploadError(src, rid, message, status))]

RequestMissing(U, uid, entry, missing) ==
  IF missing = {} THEN U
  ELSE [U EXCEPT !.o = Append(@,
          [event |-> "http.upload.missing", to |-> entry.src,
           id |-> IF entry.rid # "" THEN entry.rid ELSE uid, upload_id |-> uid,
           missing |-> SetToSeq(missing),
           total |-> IF entry.total # 0 THEN entry.total ELSE Len(entry.chunks),
           got |-> entry.got])]

EnqueueRequest(U, src, rid, req, body) ==
  [U EXCEPT !.j = Append(@, [src |-> src, id |-> rid, req |-> req, body |-> body])]

PopSession(U, uid, entry) ==
  [U EXCEPT !.s = DictPop(@, uid), !.p = Append(@, entry)]

\* _finalize_upload(uid, entry, allow_partial); live tells that entry is the object
\* the table holds under uid (the sweeper may hold an entry already popped).
FinalizeUpload(U, uid, entry, allow_partial, live) ==
  LET missing == Missing(entry) IN
  IF missing # {} /\ ~allow_partial
  THEN LET missing_req_time == entry.missing_requested
           end_received_time == IF entry.end_received_time # 0
                                THEN entry.end_received_time ELSE now
           time_since_end == now - end_received_time
       IN IF missing_req_time = 0 /\ time_since_end < GraceS THEN U
          ELSE IF missing_req_time # 0 /\ (now - missing_req_time) < ResendGapS THEN U
          ELSE LET e2 == [entry EXCEPT !.missing_requested = now]
                   U2 == IF live THEN [U EXCEPT !.s = DictPut(@, uid, e2)] ELSE U
               IN RequestMissing(U2, uid, e2, missing)
  ELSE LET data == Concat(NotNone(entry.chunks))
           U2 == EnqueueRequest(U, entry.src, entry.rid, entry.req, data)
       IN IF live THEN PopSession(U2, uid, entry)
          ELSE [U2 EXCEPT !.s = DictPop(@, uid)]

HandleUploadBegin(U, src, rid, uid, req, total) ==
  IF uid \in DOMAIN U.s
  THEN LET e0 == U.s[uid]
           e1 == [e0 EXCEPT !.req = IF @ = "" THEN req ELSE @]
           e2 == IF e1.total = 0 /\ total # 0
                 THEN [e1 EXCEPT !.total = total, !.chunks = [i \in 1..total |-> None]]
                 ELSE e1
       IN [U EXCEPT !.s = DictPut(@, uid, e2)]
  ELSE [U EXCEPT !.s = DictPut(@, uid, NewEntry(src, rid, req, total))]

\* The placement of an accepted chunk: slot seq - 1 when total is known, appended otherwise.
StoreChunk(entry, seq, raw) ==
  IF entry.total > 0
  THEN [entry EXCEPT !.got = IF entry.chunks[seq] = None THEN @ + 1 ELSE @,
                     !.chunks[seq] = raw]
  ELSE [entry EXCEPT !.chunks = Append(@, raw), !.got = @ + 1]

\* The size test of _handle_upload_chunk, mutated: a chunk of chunk_upload_b bytes is
\* too large as well.
TooLargeAtLimit(raw) == Len(raw) >= chunk_upload_b

\* The size test of _handle_upload_chunk.
TooLarge(raw) == Len(raw) > chunk_upload_b

HandleUploadChunk(U, src, rid, uid, seq, raw, req, total_chunks) ==
  IF uid \notin DOMAIN U.s /\ req = "" THEN U
  ELSE
    LET U1 == IF uid \in DOMAIN U.s THEN U
              ELSE [U EXCEPT !.s = DictPut(@, uid, NewEntry(src, rid, req, total_chunks))]
        entry == U1.s[uid]
        total == entry.total
    IN IF raw = BadB64 THEN SendUploadError(U1, src, rid, "invalid chunk b64", 400)
       ELSE IF TooLarge(raw)
       THEN PopSession(SendUploadError(U1, src, rid, "chunk too large", 413), uid, entry)
       ELSE IF total > 0 /\ (seq < 1 \/ seq > total)
       THEN SendUploadError(U1, src, rid, "chunk seq out of range", 400)
       ELSE LET e2 == StoreChunk(entry, seq, raw)
                U2 == [U1 EXCEPT !.s = DictPut(@, uid, e2)]
            IN IF e2.ended /\ ((total > 0 /\ e2.got >= total) \/ total = 0)
               THEN FinalizeUpload(U2, uid, e2, FALSE, TRUE)
               ELSE U2

\* An end handler that says nothing about an upload id it does not know.
HandleUploadEndSilent(U, src, rid, uid) ==
  IF uid \notin DOMAIN U.s THEN U
  ELSE LET e2 == [U.s[uid] EXCEPT !.ended = TRUE, !.end_received_time = now]
           U2 == [U EXCEPT !.s = DictPut(@, uid, e2)]
       IN FinalizeUpload(U2, uid, e2, FALSE, TRUE)

\* An end handler that opens a session for an upload id it does not know.
HandleUploadEndOpening(U, src, rid, uid) ==
  LET U1 == IF uid \in DOMAIN U.s THEN U
            ELSE [U EXCEPT !.s = DictPut(@, uid, NewEntry(src, rid, "", 0))]
      e2 == [U1.s[uid] EXCEPT !.ended = TRUE, !.end_received_time = now]
  IN [U1 EXCEPT !.s = DictPut(@, uid, e2)]

HandleUploadEnd(U, src, rid, uid) ==
  IF uid \notin DOMAIN U.s THEN SendUploadError(U, src, rid, "unknown upload id", 404)
  ELSE LET e2 == [U.s[uid] EXCEPT !.ended = TRUE, !.end_received_time = now]
           U2 == [U EXCEPT !.s = DictPut(@, uid, e2)]
       IN FinalizeUpload(U2, uid, e2, FALSE, TRUE)

\* The list the cleanup loop puts an entry on at time t: "finish", "retry", "error" or "none".
SweepClass(entry, t) ==
  LET created == IF entry.created # 0 THEN entry.created ELSE t
      age == t - created
      time_since_end == IF entry.end_received_time # 0
                        THEN t - entry.end_received_time ELSE age
  IN IF entry.got > 0 /\ age >= StaleS /\ ~entry.ended THEN "finish"
     ELSE IF entry.ended /\ (entry.total = 0 \/ entry.got < entry.total)
     THEN IF entry.missing_requested = 0 /\ time_since_end >= SweepGraceS THEN "retry"
          ELSE IF entry.missing_requested # 0 /\ (t - entry.missing_requested) >= GiveUpS
          THEN "finish"
          ELSE IF entry.missing_requested = 0 /\ entry.end_received_time = 0 /\ age >= GiveUpS
          THEN "finish"
          ELSE "none"
     ELSE IF entry.got = 0 /\ age >= StaleS THEN "error"
     ELSE "none"

SweepItems(s, kind, t) ==
  LET us == SetToSeqStr(DOMAIN s) IN
  [i \in 1..Len(SelectSeq(us, LAMBDA u : SweepClass(s[u], t) = kind)) |->
     [kind |-> kind, uid |-> SelectSeq(us, LAMBDA u : SweepClass(s[u], t) = kind)[i],
      stale |-> <<>>]]

\* ------------------------------------------- the parts a specification leaves idle
NoEvent == [kind |-> "none"]

PermIdle ==
  /\ perm_in = <<>>
  /\ perm_a = <<>>
  /\ perm_b = <<>>
  /\ perm_pc = 0

\* The reassembler after construction; tracked are the upload ids whose first resend
\* request time the history keeps, counted those whose jobs it counts.
UploadIdleOf(tracked, counted) ==
  /\ upload_sessions = EmptyDict
  /\ jobs = <<>>
  /\ emitted = <<>>
  /\ sweep_todo = <<>>
  /\ sweep_next = 1
  /\ sweep_raced = FALSE
  /\ up_event = NoEvent
  /\ up_final = <<>>
  /\ up_by_seq = [u \in UploadIds |-> EmptyDict]
  /\ up_live = [u \in UploadIds |-> FALSE]
  /\ up_named = [u \in UploadIds |-> FALSE]
  /\ up_asked = [u \in tracked |-> 0]
  /\ up_promoted = [u \in counted |-> 0]

UploadIdle == UploadIdleOf({}, {})

StreamWorkers == {"w1", "w2"}
StreamRids == {"r1"}
StreamModes == {"lines", "chunks"}
StreamData == {"x"}
IdleWorker == [pc |-> "idle"]

StreamIdle ==
  /\ st_worker = [w \in StreamWorkers |-> IdleWorker]
  /\ send_q = <<>>
  /\ written = <<>>
  /\ response_cache = EmptyDict
  /\ cache_chunks = <<>>
  /\ cache_timers = {}
  /\ st_log = <<>>
  /\ st_resends = 0
  /\ st_missing = NoEvent

RequestIds == {"r1", "r2"}
NoJob == <<>>

RequestIdle ==
  /\ rq_busy = [w \in StreamWorkers |-> NoJob]
  /\ rq_out = <<>>
  /\ rq_seen = [r \in RequestIds |-> 0]
  /\ rq_completed = [r \in RequestIds |-> 0]
  /\ rq_event = NoEvent

Services == {"sA", "sB"}
ServiceOrder == <<"sA", "sB">>
NoNode == <<>>
NoAddr == "None"

\* Router._relay_name_static: the node id is made of the service and of the seed.
NodeId(svc, seed) == <<svc, seed>>

IdOf(o) == NodeId(rt_obj[o].svc, o)

\* Router.__init__: one node per service, each assigned to its own node. first is 0
\* where the history of the 429 streaks is kept, and -1 where it is not.
RouterIdleOf(first) ==
  /\ rt_obj = [o \in 1..Len(ServiceOrder) |->
                 [svc |-> ServiceOrder[o], running |-> TRUE, since |-> 0, first |-> first]]
  /\ rt_nodes = [o \in 1..Len(ServiceOrder) |-> o]
  /\ service_nodes = [svc \in Services |-> CHOOSE o \in 1..Len(ServiceOrder) : ServiceOrder[o] = svc]
  /\ service_assignments = {<<ServiceOrder[o], NodeId(ServiceOrder[o], o)>> : o \in 1..Len(ServiceOrder)}
  /\ rate_limit_state = [svc \in Services |-> FALSE]
  /\ rt_callers = <<>>
  /\ rt_threads = <<>>
  /\ rt_due = [svc \in Services |-> NoNode]
  /\ rt_streaks = 0
  /\ node_addresses = [id \in {NodeId(ServiceOrder[o], o) : o \in 1..Len(ServiceOrder)} |-> NoAddr]

RouterIdle == RouterIdleOf(-1)

\* The ports of the model: 1 is the port of whisper_asr, 2 that of ollama_farm, 80 a
\* port of no service, to which a service may move; it is also the port of an http
\* URL that names none.
Ports == {1, 2, 80}

\* What a TCP probe can find: the two services listening, and maybe something on port 80.
Listenings == {{1, 2}, Ports}
ServiceKeys == {"whisper_asr", "ollama_farm"}
ServiceTargetKey == [whisper_asr |-> "asr", ollama_farm |-> "ollama"]
ServiceAliases == [whisper_asr |-> {"whisper_asr", "asr"}, ollama_farm |-> {"ollama_farm", "ollama"}]

\* SERVICE_TARGETS as the module defines it, the targets _build_targets_for_service
\* gives the node of whisper_asr, and isolation on.
PortIdle ==
  /\ SERVICE_TARGETS = [whisper_asr |-> [ports |-> {1}, endpoint |-> 1],
                        ollama_farm |-> [ports |-> {2}, endpoint |-> 2]]
  /\ targets = [whisper_asr |-> 1, asr |-> 1]
  /\ port_isolation_enabled = TRUE
  /\ pt_last = [kind |-> "none"]

\* The nodes Router.__init__ makes.
FirstNodes == 1..Len(ServiceOrder)

RedirectIdle ==
  /\ rd_jobs = [o \in FirstNodes |-> <<>>]
  /\ rd_event = NoEvent
  /\ rd_pending = <<>>

BridgeIdle ==
  /\ br_children = <<>>
  /\ br_proc = 0
  /\ br_stop = FALSE
  /\ br_backoff = BRIDGE_MIN_S
  /\ br_ready = NoAddr
  /\ br_addr = ""
  /\ br_threads = <<>>
  /\ br_delays = <<>>
  /\ br_starts = 0
  /\ br_event = NoEvent

DmIdle ==
  /\ dq = <<>>
  /\ dq_callers = [c \in {"t1", "t2"} |-> [pc |-> "idle", msg |-> 0]]
  /\ dq_next = 0
  /\ dq_event = NoEvent

SimpleIdle ==
  /\ sr_resp = <<>>
  /\ sr_event = NoEvent

WorkerIdle ==
  /\ wk_jobs = <<>>
  /\ wk_pc = "get"
  /\ wk_put = 0
  /\ wk_cur = <<>>
  /\ wk_attempt = 0
  /\ wk_mode = "chunks"
  /\ wk_seq = 0
  /\ wk_stopped = FALSE
  /\ wk_log = [id |-> 0, src |-> "", req |-> [service |-> "", resolve |-> "", stream |-> ""],
               calls |-> 0, waits |-> <<>>, answers |-> <<>>, msgs |-> <<>>, done |-> TRUE,
               failure |-> ""]

\* Router.__init__: DEFAULT_TARGETS merged with the configuration's targets, nothing to save.
ConfigIdle ==
  /\ router_targets = [asr |-> 1, ollama |-> 2]
  /\ config_dirty = FALSE

\* The locals of _stream_lines when it enters its loop.
LinesIdle ==
  /\ ln_pc = "read"
  /\ ln_clock = 0
  /\ ln_last_flush = 0
  /\ ln_batch = <<>>
  /\ ln_seq = 0
  /\ ln_sent = <<>>

LaterIdle == BridgeIdle /\ DmIdle /\ SimpleIdle /\ WorkerIdle /\ ConfigIdle /\ LinesIdle

RestIdle == RedirectIdle /\ LaterIdle

notUpload == <<permVars, streamVars, requestVars, routerVars, portVars, restVars>>
NotUploadIdle == PermIdle /\ StreamIdle /\ RequestIdle /\ RouterIdle /\ PortIdle /\ RestIdle

\* ------------------------------------------------------------ upload actions

Has(msgs, status) == \E i \in 1..Len(msgs) : msgs[i].event = "relay.response" /\ msgs[i].status = status

\* The step's effect U2 on the node, and the history of the upload named uid:
\* creates tells that the message is one that opens a session (a begin, or a chunk
\* carrying req), accepted the (seq, payload) of a chunk the protocol accepts, gone
\* the finalized entry when the entry finalized is not the one the table held, todo
\* the entries the cleanup loop has still to apply.
ApplyUpload(U2, event, uid, creates, accepted, gone, todo) ==
  LET finalized == Len(U2.j) > Len(jobs)
      timed_out == Has(U2.o, 408)
      rejected == Has(U2.o, 413)
      opened == creates /\ ~up_live[uid]
      arr0 == IF opened THEN EmptyDict ELSE up_by_seq[uid]
      arr1 == IF accepted = <<>> THEN arr0 ELSE DictPut(arr0, accepted[1].seq, accepted[1].raw)
      fin_entry == IF gone # <<>> THEN gone[1] ELSE U2.p[1]
  IN /\ upload_sessions' = U2.s
     /\ jobs' = U2.j
     /\ emitted' = U2.o
     /\ sweep_todo' = [i \in 1..Len(todo) |->
                         IF U2.p # <<>> /\ todo[i].uid = uid /\ todo[i].stale = <<>>
                         THEN [todo[i] EXCEPT !.stale = U2.p]
                         ELSE todo[i]]
     /\ up_event' = event
     /\ up_final' = IF finalized
                    THEN <<[uid |-> uid, entry |-> fin_entry,
                            body |-> U2.j[Len(U2.j)].body, by_seq |-> arr1]>>
                    ELSE <<>>
     /\ up_by_seq' = [up_by_seq EXCEPT ![uid] =
                          IF finalized \/ timed_out \/ rejected THEN EmptyDict ELSE arr1]
     /\ up_live' = [up_live EXCEPT ![uid] =
                      IF finalized \/ timed_out \/ rejected THEN FALSE
                      ELSE IF creates THEN TRUE ELSE @]
     /\ up_named' = [up_named EXCEPT ![uid] =
                       IF finalized \/ timed_out THEN FALSE
                       ELSE IF event.kind \in {"begin", "chunk", "end"} THEN TRUE ELSE @]
     /\ up_promoted' = IF uid \notin DOMAIN up_promoted THEN up_promoted
                       ELSE [up_promoted EXCEPT ![uid] =
                         IF finalized THEN (IF opened THEN 1 ELSE @ + 1)
                         ELSE IF opened THEN 0 ELSE @]
     /\ up_asked' = IF uid \notin DOMAIN up_asked THEN up_asked
                     ELSE [up_asked EXCEPT ![uid] =
                       IF finalized \/ timed_out \/ rejected \/ opened THEN 0
                       ELSE IF @ = 0 /\ uid \in DOMAIN U2.s
                               /\ \E i \in 1..Len(U2.o) : U2.o[i].event = "http.upload.missing"
                       THEN now ELSE @]

\* _handle_upload_begin on a begin message whose req and total are drawn from the given sets.
RecvUploadBeginOf(reqs, totals) ==
  \E src \in Srcs, rid \in UploadRids, uid \in UploadIds, req \in reqs, total \in totals :
    /\ Len(jobs) < MaxJobs
    /\ ~sweep_raced
    /\ sweep_raced' = (sweep_todo # <<>>)
    /\ ApplyUpload(HandleUploadBegin(UState(upload_sessions, jobs), src, rid, uid, req, total),
                   [kind |-> "begin", uid |-> uid, src |-> src, rid |-> rid],
                   uid, TRUE, <<>>, <<>>, sweep_todo)
    /\ UNCHANGED <<now, sweep_next, notUpload>>

RecvUploadBegin == RecvUploadBeginOf(Reqs, 0..MaxTotal)

\* What the protocol does with a chunk message, given the session it meets:
\* "orphan" (no session and no req), "badb64", "oversize", "range", or "stored".
ChunkClass(uid, seq, raw, req, total_chunks) ==
  LET known == uid \in DOMAIN upload_sessions
      total == IF known THEN upload_sessions[uid].total ELSE total_chunks
  IN IF ~known /\ req = "" THEN "orphan"
     ELSE IF raw = BadB64 THEN "badb64"
     ELSE IF Len(raw) > chunk_upload_b THEN "oversize"
     ELSE IF total > 0 /\ (seq < 1 \/ seq > total) THEN "range"
     ELSE "stored"

\* _handle_upload_chunk on a chunk message whose fields are drawn from the given sets.
RecvUploadChunkOf(seqs, raws, reqs, totals) ==
  \E src \in Srcs, rid \in UploadRids, uid \in UploadIds, seq \in seqs,
     raw \in raws, req \in reqs, total \in totals :
    /\ Len(jobs) < MaxJobs
    /\ uid \in DOMAIN upload_sessions => upload_sessions[uid].got < MaxArrivals
    /\ ~sweep_raced
    /\ sweep_raced' = (sweep_todo # <<>>)
    /\ ApplyUpload(HandleUploadChunk(UState(upload_sessions, jobs), src, rid, uid, seq, raw,
                                     req, total),
                   [kind |-> "chunk", uid |-> uid, src |-> src, rid |-> rid,
                    class |-> ChunkClass(uid, seq, raw, req, total),
                    seq |-> seq, raw |-> raw,
                    met |-> uid \in DOMAIN upload_sessions \/ req # "",
                    total |-> IF uid \in DOMAIN upload_sessions
                              THEN upload_sessions[uid].total ELSE total],
                   uid, req # "",
                   IF ChunkClass(uid, seq, raw, req, total) = "stored"
                   THEN <<[seq |-> seq, raw |-> raw]>> ELSE <<>>,
                   <<>>, sweep_todo)
    /\ UNCHANGED <<now, sweep_next, notUpload>>

RecvUploadChunk == RecvUploadChunkOf(0..(MaxTotal + 1), Payloads \cup {BadB64}, Reqs, ChunkTotals)

RecvUploadEnd ==
  \E src \in Srcs, rid \in UploadRids, uid \in UploadIds :
    /\ Len(jobs) < MaxJobs
    /\ ~sweep_raced
    /\ sweep_raced' = (sweep_todo # <<>>)
    /\ ApplyUpload(HandleUploadEnd(UState(upload_sessions, jobs), src, rid, uid),
                   [kind |-> "end", uid |-> uid, src |-> src, rid |-> rid],
                   uid, FALSE, <<>>, <<>>, sweep_todo)
    /\ UNCHANGED <<now, sweep_next, notUpload>>

\* One pass of _upload_cleanup_loop over the table: the three lists are built.
SweepScan ==
  /\ sweep_todo = <<>>
  /\ now >= sweep_next
  /\ LET items == SweepItems(upload_sessions, "retry", now)
                  \o SweepItems(upload_sessions, "finish", now)
                  \o SweepItems(upload_sessions, "error", now)
     IN /\ sweep_todo' = items
        /\ sweep_next' = IF items = <<>> THEN now + SweepPeriodS ELSE sweep_next
  /\ emitted' = <<>>
  /\ up_event' = [kind |-> "scan"]
  /\ up_final' = <<>>
  /\ UNCHANGED <<now, upload_sessions, jobs, sweep_raced, up_by_seq, up_live, up_named, up_asked, up_promoted, notUpload>>

SweepEffect(U, item, entry, live) ==
  IF item.kind = "retry" THEN FinalizeUpload(U, item.uid, entry, FALSE, live)
  ELSE IF item.kind = "finish" THEN FinalizeUpload(U, item.uid, entry, TRUE, live)
  ELSE [SendUploadError(U, entry.src, entry.rid, "upload timed out before chunks arrived", 408)
          EXCEPT !.s = DictPop(@, item.uid)]

\* The cleanup loop applies the next entry of its lists.
SweepApply ==
  /\ sweep_todo # <<>>
  /\ LET item == Head(sweep_todo)
         live == item.stale = <<>>
         entry == IF live THEN upload_sessions[item.uid] ELSE item.stale[1]
         U2 == SweepEffect(UState(upload_sessions, jobs), item, entry, live)
     IN /\ ApplyUpload([U2 EXCEPT !.p = <<>>],
                       [kind |-> "sweep_" \o item.kind, uid |-> item.uid, live |-> live],
                       item.uid, FALSE, <<>>, <<entry>>, Tail(sweep_todo))
  /\ sweep_next' = IF Len(sweep_todo) = 1 THEN now + SweepPeriodS ELSE sweep_next
  /\ sweep_raced' = (sweep_raced /\ Len(sweep_todo) > 1)
  /\ UNCHANGED <<now, notUpload>>

\* A worker's jobs.get().
TakeJob ==
  /\ jobs # <<>>
  /\ jobs' = Tail(jobs)
  /\ emitted' = <<>>
  /\ up_event' = [kind |-> "take"]
  /\ up_final' = <<>>
  /\ UNCHANGED <<now, upload_sessions, sweep_todo, sweep_next, sweep_raced,
                 up_by_seq, up_live, up_named, up_asked, up_promoted, notUpload>>

\* The cleanup loop wakes when its wait expires: the clock does not pass sweep_next
\* before the pass is made.
Tick ==
  \E d \in TickSteps :
    /\ now + d <= MaxTime
    /\ now + d <= sweep_next
    /\ now' = now + d

\* The clock advances between two passes of the cleanup loop, never within one. The
\* reassembler reads the clock only to compare it with the timestamps of a session, so
\* the time that passes while the table is empty is left out.
UploadTick ==
  /\ Tick
  /\ sweep_todo = <<>>
  /\ upload_sessions # EmptyDict
  /\ emitted' = <<>>
  /\ up_event' = [kind |-> "tick"]
  /\ up_final' = <<>>
  /\ UNCHANGED <<upload_sessions, jobs, sweep_todo, sweep_next, sweep_raced,
                 up_by_seq, up_live, up_named, up_asked, up_promoted, notUpload>>

UploadInit ==
  /\ now = 1
  /\ UploadIdle
  /\ NotUploadIdle

\* The reassembler while messages arrive within one second: the clock stands still and
\* the cleanup loop has not made its first pass.
UploadNext ==
  \/ RecvUploadBegin
  \/ RecvUploadChunk
  \/ RecvUploadEnd
  \/ TakeJob

SpecUpload == UploadInit /\ [][UploadNext]_vars

\* The reassembler with its clock and its cleanup loop; the messages carry one payload
\* and a sequence number within 1..MaxTotal.
TimedUploadBegin == RecvUploadBeginOf({"req"}, ChunkTotals)

TimedUploadChunk == RecvUploadChunkOf(1..MaxTotal, {<<1>>}, Reqs, ChunkTotals)

TimedUploadNext ==
  \/ TimedUploadBegin
  \/ TimedUploadChunk
  \/ RecvUploadEnd
  \/ SweepScan
  \/ SweepApply
  \/ TakeJob
  \/ UploadTick

SpecUploadTimed == UploadInit /\ [][TimedUploadNext]_vars

\* The same, with the time of each session's first resend request kept.
ResendInit ==
  /\ now = 1
  /\ UploadIdleOf(UploadIds, {})
  /\ NotUploadIdle

SpecUploadResend == ResendInit /\ [][TimedUploadNext]_vars

\* The same, with the jobs enqueued from each session counted.
PromotedInit ==
  /\ now = 1
  /\ UploadIdleOf({}, UploadIds)
  /\ NotUploadIdle

SpecUploadPromoted == PromotedInit /\ [][TimedUploadNext]_vars

\* The client sends its messages during the first ClientUntil seconds, chunks out of
\* range, too large or not base64 among them, and is silent afterwards; the cleanup
\* loop makes its passes and the clock advances.
SweptNext ==
  \/ now <= ClientUntil /\ TimedUploadBegin
  \/ now <= ClientUntil /\ RecvUploadChunkOf(0..(MaxTotal + 1), {<<1>>, Over, BadB64}, Reqs, ChunkTotals)
  \/ now <= ClientUntil /\ RecvUploadEnd
  \/ SweepScan
  \/ SweepApply
  \/ TakeJob
  \/ UploadTick

\* The cleanup thread runs until the node stops, workers take the jobs, time passes.
SpecUploadSwept ==
  /\ UploadInit
  /\ [][SweptNext]_vars
  /\ WF_vars(SweepScan)
  /\ WF_vars(SweepApply)
  /\ WF_vars(TakeJob)
  /\ WF_vars(UploadTick)

\* ------------------------------------------- one upload, two arrival orders
\* Two nodes are sent the same upload of PermLen chunks, with its total announced or
\* not: one gets the chunks in ascending seq, the other in a permuted order.
PermInit ==
  /\ now = 1
  /\ UploadIdle
  /\ StreamIdle
  /\ RequestIdle
  /\ perm_in \in [total : {0, PermLen}, raws : [1..PermLen -> {<<1>>, Full}],
                  order : Permutations(1..PermLen)]
  /\ perm_a = UState(EmptyDict, <<>>)
  /\ perm_b = UState(EmptyDict, <<>>)
  /\ perm_pc = 0
  /\ RouterIdle
  /\ PortIdle
  /\ RestIdle

PermBegin ==
  /\ perm_pc = 0
  /\ perm_a' = HandleUploadBegin(perm_a, "cA", "r1", "u1", "req", perm_in.total)
  /\ perm_b' = HandleUploadBegin(perm_b, "cA", "r1", "u1", "req", perm_in.total)
  /\ perm_pc' = 1
  /\ UNCHANGED <<now, uploadVars, streamVars, requestVars, routerVars, portVars, restVars, perm_in>>

PermChunk ==
  /\ perm_pc \in 1..PermLen
  /\ perm_a' = HandleUploadChunk(perm_a, "cA", "r1", "u1", perm_pc, perm_in.raws[perm_pc],
                                 "", perm_in.total)
  /\ perm_b' = HandleUploadChunk(perm_b, "cA", "r1", "u1", perm_in.order[perm_pc],
                                 perm_in.raws[perm_in.order[perm_pc]], "", perm_in.total)
  /\ perm_pc' = perm_pc + 1
  /\ UNCHANGED <<now, uploadVars, streamVars, requestVars, routerVars, portVars, restVars, perm_in>>

PermEnd ==
  /\ perm_pc = PermLen + 1
  /\ perm_a' = HandleUploadEnd(perm_a, "cA", "r1", "u1")
  /\ perm_b' = HandleUploadEnd(perm_b, "cA", "r1", "u1")
  /\ perm_pc' = perm_pc + 1
  /\ UNCHANGED <<now, uploadVars, streamVars, requestVars, routerVars, portVars, restVars, perm_in>>

PermNext ==
  \/ PermBegin
  \/ PermChunk
  \/ PermEnd

SpecUploadOrders == PermInit /\ [][PermNext]_vars

\* ------------------------------------------------- streaming and the bridge
\* A dm that puts the record at the head of the queue.
DmAtHead(q, rec) ==
  IF Len(q) >= SEND_QUEUE_MAX THEN <<rec>> \o Tail(q) ELSE <<rec>> \o q

\* BridgeManager.dm: put_nowait, and on queue.Full the oldest entry is dropped first.
Dm(q, rec) ==
  IF Len(q) >= SEND_QUEUE_MAX THEN Append(Tail(q), rec) ELSE Append(q, rec)

StreamRec(event, w) ==
  [event |-> event, to |-> st_worker[w].src, id |-> st_worker[w].rid,
   resp |-> st_worker[w].resp, resend |-> FALSE]

\* flush_batch of _stream_lines: the queue and the log after it.
FlushBatch(w, batch, q) ==
  IF batch = <<>> THEN q
  ELSE Dm(q, StreamRec("relay.response.lines", w) @@ [seqs |-> batch])

Logged(log, resp, batch) ==
  [log EXCEPT ![resp].seqs = @ \o batch]

\* _handle_stream up to the first upstream read: begin is emitted and, in chunked
\* framing, the cache entry of the response is made.
StreamBeginOf(w, rids, modes) ==
  \E src \in Srcs, rid \in rids, mode \in modes :
    /\ st_worker[w].pc = "idle"
    /\ Len(st_log) < MaxStreams
    /\ LET resp == Len(st_log) + 1 IN
       /\ st_worker' = [st_worker EXCEPT ![w] =
            [pc |-> "stream", src |-> src, rid |-> rid, mode |-> mode, resp |-> resp,
             seq |-> 0, batch |-> <<>>]]
       /\ send_q' = Dm(send_q, [event |-> "relay.response.begin", to |-> src, id |-> rid,
                                resp |-> resp, resend |-> FALSE])
       /\ st_log' = Append(st_log, [rid |-> rid, mode |-> mode, seqs |-> <<>>,
                                    ends |-> <<>>, done |-> FALSE])
       /\ cache_chunks' = Append(cache_chunks, EmptyDict)
       /\ response_cache' = IF mode = "chunks" THEN DictPut(response_cache, rid, resp)
                            ELSE response_cache
    /\ UNCHANGED <<now, uploadVars, permVars, requestVars, routerVars, portVars, restVars, written, cache_timers, st_resends, st_missing>>

StreamBegin(w) == StreamBeginOf(w, StreamRids, StreamModes)

\* One non-empty chunk of the upstream body in chunked framing.
StreamChunkOf(w, datas) ==
  \E data \in datas :
    /\ st_worker[w].pc = "stream"
    /\ st_worker[w].mode = "chunks"
    /\ st_worker[w].seq < MaxChunks
    /\ LET seq == st_worker[w].seq + 1
           resp == st_worker[w].resp
       IN /\ st_worker' = [st_worker EXCEPT ![w].seq = seq]
          /\ cache_chunks' = [cache_chunks EXCEPT ![resp] = DictPut(@, seq, data)]
          /\ send_q' = Dm(send_q, StreamRec("relay.response.chunk", w)
                                  @@ [seq |-> seq, b64 |-> data])
          /\ st_log' = Logged(st_log, resp, <<seq>>)
    /\ UNCHANGED <<now, uploadVars, permVars, requestVars, routerVars, portVars, restVars, written, response_cache, cache_timers,
                   st_resends, st_missing>>

StreamChunk(w) == StreamChunkOf(w, StreamData)

\* One non-empty line of the upstream body in line framing; elapsed tells that
\* batch_latency has passed since the last flush.
StreamLine(w) ==
  \E elapsed \in BOOLEAN :
    /\ st_worker[w].pc = "stream"
    /\ st_worker[w].mode = "lines"
    /\ st_worker[w].seq < MaxChunks
    /\ LET seq == st_worker[w].seq + 1
           batch == Append(st_worker[w].batch, seq)
           flush == Len(batch) >= batch_lines \/ elapsed
       IN /\ st_worker' = [st_worker EXCEPT ![w].seq = seq,
                                            ![w].batch = IF flush THEN <<>> ELSE batch]
          /\ send_q' = IF flush THEN FlushBatch(w, batch, send_q) ELSE send_q
          /\ st_log' = IF flush THEN Logged(st_log, st_worker[w].resp, batch) ELSE st_log
    /\ UNCHANGED <<now, uploadVars, permVars, requestVars, routerVars, portVars, restVars, written, response_cache, cache_chunks,
                   cache_timers, st_resends, st_missing>>

EndRec(w, ok, last_seq) ==
  StreamRec("relay.response.end", w) @@ [ok |-> ok, last_seq |-> last_seq]

\* The upstream body ends. Line framing: the undelimited tail, when there is one, joins
\* the batch and the batch is flushed; the function then returns (the ok end message
\* sits after the return of the except block). Chunked framing: the ok end message is
\* emitted and the timer that pops the cache entry is started.
StreamFinish(w) ==
  \E tail \in BOOLEAN :
    /\ st_worker[w].pc = "stream"
    /\ LET resp == st_worker[w].resp
           lines == st_worker[w].mode = "lines"
           seq == IF lines /\ tail THEN st_worker[w].seq + 1 ELSE st_worker[w].seq
           batch == IF lines /\ tail THEN Append(st_worker[w].batch, seq)
                    ELSE st_worker[w].batch
       IN /\ lines /\ tail => st_worker[w].seq < MaxChunks
          /\ ~lines => ~tail
          /\ st_worker' = [st_worker EXCEPT ![w] = IdleWorker]
          /\ send_q' = IF lines THEN FlushBatch(w, batch, send_q)
                       ELSE Dm(send_q, EndRec(w, TRUE, seq))
          /\ st_log' = IF lines
                       THEN [Logged(st_log, resp, batch) EXCEPT ![resp].done = TRUE]
                       ELSE [st_log EXCEPT ![resp].done = TRUE,
                                           ![resp].ends = Append(@, seq)]
          /\ cache_timers' = IF lines THEN cache_timers
                             ELSE cache_timers \cup {resp}
    /\ UNCHANGED <<now, uploadVars, permVars, requestVars, routerVars, portVars, restVars, written, response_cache, cache_chunks,
                   st_resends, st_missing>>

\* The upstream read raises: the failed end message is emitted with last_seq = seq; the
\* pending batch of line framing is not flushed; chunked framing pops the cache entry.
StreamFail(w) ==
  /\ st_worker[w].pc = "stream"
  /\ LET resp == st_worker[w].resp
     IN /\ st_worker' = [st_worker EXCEPT ![w] = IdleWorker]
        /\ send_q' = Dm(send_q, EndRec(w, FALSE, st_worker[w].seq))
        /\ st_log' = [st_log EXCEPT ![resp].done = TRUE,
                                    ![resp].ends = Append(@, st_worker[w].seq)]
        /\ response_cache' = IF st_worker[w].mode = "chunks"
                             THEN DictPop(response_cache, st_worker[w].rid)
                             ELSE response_cache
  /\ UNCHANGED <<now, uploadVars, permVars, requestVars, routerVars, portVars, restVars, written, cache_chunks, cache_timers, st_resends, st_missing>>

\* The chunked responses of request id rid that have ended ok, whose cache timer has
\* not fired, and that emitted seq.
InWindow(rid, seq) ==
  {k \in cache_timers : st_log[k].rid = rid /\ seq \in DOMAIN cache_chunks[k]}

\* _handle_response_missing for one requested seq: the cached chunk is emitted again.
RecvResponseMissingOf(rids) ==
  \E src \in Srcs, rid \in rids, seq \in 1..MaxChunks :
    /\ st_resends < MaxResends
    /\ st_resends' = st_resends + 1
    /\ st_missing' = [kind |-> "missing", id |-> rid, seq |-> seq, window |-> InWindow(rid, seq),
                      out |-> IF rid \in DOMAIN response_cache
                                 /\ seq \in DOMAIN cache_chunks[response_cache[rid]]
                              THEN <<cache_chunks[response_cache[rid]][seq]>> ELSE <<>>]
    /\ send_q' = IF rid \in DOMAIN response_cache
                    /\ seq \in DOMAIN cache_chunks[response_cache[rid]]
                 THEN Dm(send_q, [event |-> "relay.response.chunk", to |-> src, id |-> rid,
                                  resp |-> response_cache[rid], resend |-> TRUE,
                                  seq |-> seq, b64 |-> cache_chunks[response_cache[rid]][seq]])
                 ELSE send_q
    /\ UNCHANGED <<now, uploadVars, permVars, requestVars, routerVars, portVars, restVars, st_worker, written, response_cache,
                   cache_chunks, cache_timers, st_log>>

RecvResponseMissing == RecvResponseMissingOf(StreamRids)

\* The timer started at the end of a chunked stream fires.
PurgeCache ==
  \E resp \in cache_timers :
    /\ cache_timers' = cache_timers \ {resp}
    /\ response_cache' = DictPop(response_cache, st_log[resp].rid)
    /\ UNCHANGED <<now, uploadVars, permVars, requestVars, routerVars, portVars, restVars, st_worker, send_q, written, cache_chunks,
                   st_log, st_resends, st_missing>>

\* _sender_loop: the oldest queued record is written to the bridge child.
SenderWrite ==
  /\ send_q # <<>>
  /\ written' = Append(written, Head(send_q))
  /\ send_q' = Tail(send_q)
  /\ UNCHANGED <<now, uploadVars, permVars, requestVars, routerVars, portVars, restVars, st_worker, response_cache, cache_chunks,
                 cache_timers, st_log, st_resends, st_missing>>

StreamInit ==
  /\ now = 1
  /\ UploadIdle
  /\ PermIdle
  /\ StreamIdle
  /\ RequestIdle
  /\ RouterIdle
  /\ PortIdle
  /\ RestIdle

StreamNext ==
  \/ \E w \in StreamWorkers : StreamBegin(w)
  \/ \E w \in StreamWorkers : StreamChunk(w)
  \/ \E w \in StreamWorkers : StreamLine(w)
  \/ \E w \in StreamWorkers : StreamFinish(w)
  \/ \E w \in StreamWorkers : StreamFail(w)
  \/ RecvResponseMissing
  \/ PurgeCache
  \/ SenderWrite

SpecStream == StreamInit /\ [][StreamNext]_vars

\* Chunked responses only, with two payloads and two request ids, and the resend
\* requests a client makes for them.
ReplayRids == {"r1", "r2"}
ReplayData == {"x", "y"}

ReplayNext ==
  \/ \E w \in StreamWorkers : StreamBeginOf(w, ReplayRids, {"chunks"})
  \/ \E w \in StreamWorkers : StreamChunkOf(w, ReplayData)
  \/ \E w \in StreamWorkers : StreamFinish(w)
  \/ \E w \in StreamWorkers : StreamFail(w)
  \/ RecvResponseMissingOf(ReplayRids)
  \/ PurgeCache

SpecReplay == StreamInit /\ [][ReplayNext]_vars

\* ----------------------------------------------------- requests and workers
\* The jobs of the node that carry request id r: queued, or taken by a worker.
InFlight(r) ==
  Cardinality({i \in 1..Len(jobs) : jobs[i].id = r})
  + Cardinality({w \in StreamWorkers : rq_busy[w] # NoJob /\ rq_busy[w][1].id = r})

\* _handle_dm on relay.http / http.request / relay.fetch: _check_assignment, which
\* answers with relay.redirect when the service is assigned to another node, and
\* otherwise _enqueue_request.
RecvHttpRequest ==
  \E src \in Srcs, rid \in RequestIds, assigned_here \in BOOLEAN :
    /\ rq_seen[rid] + rq_seen[CHOOSE r \in RequestIds : r # rid] < MaxRequests
    /\ rq_seen' = [rq_seen EXCEPT ![rid] = @ + 1]
    /\ jobs' = IF assigned_here
               THEN EnqueueRequest(UState(EmptyDict, jobs), src, rid, "req", <<>>).j
               ELSE jobs
    /\ rq_out' = IF assigned_here THEN rq_out
                 ELSE Append(rq_out, [event |-> "relay.redirect", to |-> src, id |-> rid])
    /\ rq_event' = [kind |-> "request", id |-> rid, enqueued |-> assigned_here,
                    in_flight |-> InFlight(rid), completed |-> rq_completed[rid]]
    /\ UNCHANGED <<now, upload_sessions, emitted, sweep_todo, sweep_next, sweep_raced,
                   up_event, up_final, up_by_seq, up_live, up_named, up_asked, up_promoted,
                   permVars, streamVars, routerVars, portVars, restVars, rq_busy, rq_completed>>

\* _http_worker: jobs.get().
WorkerTake(w) ==
  /\ rq_busy[w] = NoJob
  /\ jobs # <<>>
  /\ rq_busy' = [rq_busy EXCEPT ![w] = <<Head(jobs)>>]
  /\ jobs' = Tail(jobs)
  /\ rq_event' = NoEvent
  /\ UNCHANGED <<now, upload_sessions, emitted, sweep_todo, sweep_next, sweep_raced,
                 up_event, up_final, up_by_seq, up_live, up_named, up_asked, up_promoted,
                 permVars, streamVars, routerVars, portVars, restVars, rq_out, rq_seen, rq_completed>>

\* _http_worker: _process_request returns after its response was sent, or raises and
\* the worker sends the error response; then task_done().
WorkerDone(w) ==
  \E ok \in BOOLEAN :
    /\ rq_busy[w] # NoJob
    /\ rq_out' = Append(rq_out, [event |-> "relay.response", to |-> rq_busy[w][1].src,
                                 id |-> rq_busy[w][1].id, ok |-> ok])
    /\ rq_completed' = [rq_completed EXCEPT ![rq_busy[w][1].id] = @ + 1]
    /\ rq_busy' = [rq_busy EXCEPT ![w] = NoJob]
    /\ rq_event' = NoEvent
    /\ UNCHANGED <<now, uploadVars, permVars, streamVars, routerVars, portVars, restVars, rq_seen>>

RequestInit ==
  /\ now = 1
  /\ UploadIdle
  /\ PermIdle
  /\ StreamIdle
  /\ RequestIdle
  /\ RouterIdle
  /\ PortIdle
  /\ RestIdle

RequestNext ==
  \/ RecvHttpRequest
  \/ \E w \in StreamWorkers : WorkerTake(w)
  \/ \E w \in StreamWorkers : WorkerDone(w)

SpecRequests == RequestInit /\ [][RequestNext]_vars

\* ------------------------- the Router: assignments, 429 streaks, seed rotation

WorkersPerNode == {1, 2}

\* The seeds a run can draw: one per service at start and one per rotation.
Seeds == 1..(Len(ServiceOrder) + MaxStreaks)
RouterTicks == {60}

\* An item added beside the one the service already has.
AssignAdd(asg, svc, id) == asg \cup {<<svc, id>>}

\* dict.__setitem__ on service_assignments: the service's item is replaced.
AssignPut(asg, svc, id) == {p \in asg : p[1] # svc} \cup {<<svc, id>>}

\* dict.get on service_assignments.
AssignGet(asg, svc) ==
  IF \E p \in asg : p[1] = svc THEN (CHOOSE p \in asg : p[1] = svc)[2] ELSE NoNode

\* generate_seed_hex: a seed no node has had.
generate_seed_hex == Len(rt_obj) + 1

Remove(seq, x) == SelectSeq(seq, LAMBDA y : y # x)

RemoveAt(seq, i) == [k \in 1..(Len(seq) - 1) |-> IF k < i THEN seq[k] ELSE seq[k + 1]]

IndexOf(seq, x) == CHOOSE i \in 1..Len(seq) : seq[i] = x

\* The services the assignment map binds to node id.
ServedBy(id) == {svc \in Services : <<svc, id>> \in service_assignments}

\* RelayNode._register_rate_limit_hit up to the pending test of Router._on_rate_limit:
\* a worker of node o has got a 429 response.
RegisterRateLimitHit(o) ==
  /\ o \in 1..Len(rt_obj)
  /\ rt_obj[o].running
  /\ Cardinality({i \in 1..Len(rt_callers) : rt_callers[i].node = o}) < Cardinality(WorkersPerNode)
  /\ LET since == IF rt_obj[o].since = 0 THEN now ELSE rt_obj[o].since
         svc   == rt_obj[o].svc
         due   == now - since >= RateLimitS
     IN /\ rt_obj' = [rt_obj EXCEPT ![o].since = since,
                                     ![o].first = IF @ = 0 THEN now ELSE @]
        /\ due => rt_streaks < MaxStreaks
        /\ rt_streaks' = IF due THEN rt_streaks + 1 ELSE rt_streaks
        /\ rt_due' = IF due /\ ~rate_limit_state[svc]
                       THEN [s \in Services |-> IF s \in ServedBy(IdOf(o)) THEN IdOf(o) ELSE rt_due[s]]
                       ELSE rt_due
        /\ rt_callers' = IF due /\ ~rate_limit_state[svc]
                           THEN Append(rt_callers, [svc |-> svc, node |-> o])
                           ELSE rt_callers
  /\ UNCHANGED <<now, uploadVars, permVars, streamVars, requestVars, portVars, restVars,
                 rt_nodes, service_nodes, service_assignments, rate_limit_state, rt_threads, node_addresses>>

\* Router._on_rate_limit after the pending test, and the return into
\* _register_rate_limit_hit, which clears the streak of the caller's node.
OnRateLimit(i) ==
  /\ i \in 1..Len(rt_callers)
  /\ LET c == rt_callers[i]
     IN /\ rate_limit_state' = [rate_limit_state EXCEPT ![c.svc] = TRUE]
        /\ rt_threads' = Append(rt_threads, [svc |-> c.svc, pc |-> "stop", node |-> 0, new |-> 0])
        /\ rt_obj' = [rt_obj EXCEPT ![c.node].since = 0]
  /\ rt_callers' = RemoveAt(rt_callers, i)
  /\ UNCHANGED <<now, uploadVars, permVars, streamVars, requestVars, portVars, restVars,
                 rt_nodes, service_nodes, service_assignments, rt_due, rt_streaks, node_addresses>>

\* A _reset_rate_limit that leaves rate_limit_since as it is.
ResetRateLimitKeepingSince(o) ==
  /\ o \in 1..Len(rt_obj)
  /\ rt_obj[o].running
  /\ rt_obj[o].since # 0 \/ rt_obj[o].first > 0
  /\ rt_obj' = [rt_obj EXCEPT ![o].first = IF @ > 0 THEN 0 ELSE @]
  /\ UNCHANGED <<now, uploadVars, permVars, streamVars, requestVars, portVars, restVars,
                 rt_nodes, service_nodes, service_assignments, rate_limit_state,
                 rt_callers, rt_threads, rt_due, rt_streaks, node_addresses>>

\* RelayNode._reset_rate_limit: a worker of node o has got a response that is not 429.
ResetRateLimit(o) ==
  /\ o \in 1..Len(rt_obj)
  /\ rt_obj[o].running
  /\ rt_obj[o].since # 0 \/ rt_obj[o].first > 0
  /\ rt_obj' = [rt_obj EXCEPT ![o].since = 0, ![o].first = IF @ > 0 THEN 0 ELSE @]
  /\ UNCHANGED <<now, uploadVars, permVars, streamVars, requestVars, portVars, restVars,
                 rt_nodes, service_nodes, service_assignments, rate_limit_state,
                 rt_callers, rt_threads, rt_due, rt_streaks, node_addresses>>

\* Router._rotate_service_address: the service's node is stopped and removed.
RotateStop(t) ==
  /\ t \in 1..Len(rt_threads)
  /\ rt_threads[t].pc = "stop"
  /\ LET node == service_nodes[rt_threads[t].svc]
     IN /\ rt_obj' = [rt_obj EXCEPT ![node].running = FALSE]
        /\ rt_nodes' = Remove(rt_nodes, node)
        /\ rt_threads' = [rt_threads EXCEPT ![t].pc = "create", ![t].node = node]
  /\ node_addresses' = DictPop(node_addresses, IdOf(service_nodes[rt_threads[t].svc]))
  /\ UNCHANGED <<now, uploadVars, permVars, streamVars, requestVars, portVars, restVars,
                 service_nodes, service_assignments, rate_limit_state,
                 rt_callers, rt_due, rt_streaks>>

\* Router._rotate_service_address: a node is made from a new seed and registered.
RotateCreate(t) ==
  /\ t \in 1..Len(rt_threads)
  /\ rt_threads[t].pc = "create"
  /\ LET svc == rt_threads[t].svc
         new_seed == generate_seed_hex
     IN /\ rt_obj' = Append(rt_obj, [svc |-> svc, running |-> FALSE, since |-> 0,
                                     first |-> IF rt_obj[1].first < 0 THEN -1 ELSE 0])
        /\ rt_nodes' = Append(rt_nodes, new_seed)
        /\ service_nodes' = [service_nodes EXCEPT ![svc] = new_seed]
        /\ rt_threads' = [rt_threads EXCEPT ![t].pc = "assign", ![t].new = new_seed]
  /\ node_addresses' = DictPut(node_addresses, NodeId(rt_threads[t].svc, generate_seed_hex), NoAddr)
  /\ UNCHANGED <<now, uploadVars, permVars, streamVars, requestVars, portVars, restVars,
                 service_assignments, rate_limit_state, rt_callers, rt_due, rt_streaks>>

\* Router._rotate_service_address: the service is assigned to the new node, which starts.
RotateAssign(t) ==
  /\ t \in 1..Len(rt_threads)
  /\ rt_threads[t].pc = "assign"
  /\ LET svc == rt_threads[t].svc
         new_node == rt_threads[t].new
     IN /\ service_assignments' = AssignPut(service_assignments, svc, NodeId(svc, new_node))
        /\ rt_obj' = [rt_obj EXCEPT ![new_node].running = TRUE]
        /\ rt_threads' = [rt_threads EXCEPT ![t].pc = "finally"]
  /\ UNCHANGED <<now, uploadVars, permVars, streamVars, requestVars, portVars, restVars,
                 rt_nodes, service_nodes, rate_limit_state, rt_callers, rt_due, rt_streaks, node_addresses>>

\* Router._rotate_service_address: finally, pending is cleared.
RotateFinally(t) ==
  /\ t \in 1..Len(rt_threads)
  /\ rt_threads[t].pc = "finally"
  /\ rate_limit_state' = [rate_limit_state EXCEPT ![rt_threads[t].svc] = FALSE]
  /\ rt_threads' = RemoveAt(rt_threads, t)
  /\ UNCHANGED <<now, uploadVars, permVars, streamVars, requestVars, portVars, restVars,
                 rt_obj, rt_nodes, service_nodes, service_assignments,
                 rt_callers, rt_due, rt_streaks, node_addresses>>

\* Router._cycle_service: the operator moves a service to the next node of the list.
CycleService(svc) ==
  /\ rt_nodes # <<>>
  /\ LET node_ids == [k \in 1..Len(rt_nodes) |-> IdOf(rt_nodes[k])]
         current == AssignGet(service_assignments, svc)
         new_id == IF \E k \in 1..Len(node_ids) : node_ids[k] = current
                     THEN node_ids[(IndexOf(node_ids, current) % Len(node_ids)) + 1]
                     ELSE node_ids[1]
     IN /\ current # new_id
        /\ service_assignments' = AssignPut(service_assignments, svc, new_id)
  /\ rt_due' = [rt_due EXCEPT ![svc] = NoNode]
  /\ UNCHANGED <<now, uploadVars, permVars, streamVars, requestVars, portVars, restVars,
                 rt_obj, rt_nodes, service_nodes, rate_limit_state,
                 rt_callers, rt_threads, rt_streaks, node_addresses>>

RouterTick ==
  /\ \E d \in RouterTicks : now + d <= MaxRouterTime /\ now' = now + d
  /\ \E o \in 1..Len(rt_obj) : rt_obj[o].since # 0
  /\ UNCHANGED <<uploadVars, permVars, streamVars, requestVars, routerVars, portVars, restVars>>

RouterInit ==
  /\ now = 1
  /\ UploadIdle
  /\ PermIdle
  /\ StreamIdle
  /\ RequestIdle
  /\ RouterIdle
  /\ PortIdle
  /\ RestIdle

RotateStep ==
  \E t \in 1..MaxStreaks : RotateStop(t) \/ RotateCreate(t) \/ RotateAssign(t) \/ RotateFinally(t)

RouterNext ==
  \/ \E o \in Seeds : RegisterRateLimitHit(o)
  \/ \E i \in 1..MaxStreaks : OnRateLimit(i)
  \/ \E o \in Seeds : ResetRateLimit(o)
  \/ \E t \in 1..MaxStreaks : RotateStop(t)
  \/ \E t \in 1..MaxStreaks : RotateCreate(t)
  \/ \E t \in 1..MaxStreaks : RotateAssign(t)
  \/ \E t \in 1..MaxStreaks : RotateFinally(t)
  \/ \E svc \in Services : CycleService(svc)
  \/ RouterTick

SpecRouter == RouterInit /\ [][RouterNext]_vars

\* The Router and its nodes, with the history of the nodes' 429 streaks.
RateLimitInit ==
  /\ now = 1
  /\ UploadIdle
  /\ PermIdle
  /\ StreamIdle
  /\ RequestIdle
  /\ RouterIdleOf(0)
  /\ PortIdle
  /\ RestIdle

\* The workers' 429 and other responses and the rotations they set off; no operator
\* moves a service.
RateLimitNext ==
  \/ \E o \in Seeds : RegisterRateLimitHit(o)
  \/ \E i \in 1..MaxStreaks : OnRateLimit(i)
  \/ \E o \in Seeds : ResetRateLimit(o)
  \/ \E t \in 1..MaxStreaks : RotateStop(t)
  \/ \E t \in 1..MaxStreaks : RotateCreate(t)
  \/ \E t \in 1..MaxStreaks : RotateAssign(t)
  \/ \E t \in 1..MaxStreaks : RotateFinally(t)
  \/ RouterTick

SpecRateLimit == RateLimitInit /\ [][RateLimitNext]_vars

\* The threads the Router starts run: a worker inside _on_rate_limit returns, and a
\* rotation thread takes its next step.
SpecRouterFair ==
  /\ RouterInit
  /\ [][RouterNext]_vars
  /\ WF_vars(\E i \in 1..MaxStreaks : OnRateLimit(i))
  /\ WF_vars(RotateStep)

\* ------------------------------------------------------------ port isolation

\* One RelayNode, of primary service whisper_asr, and the requests its workers process.
primary_service == "whisper_asr"

\* RelayNode.alias_map of that node.
alias_map == [whisper_asr |-> "whisper_asr", asr |-> "whisper_asr"]

\* RelayNode._canonical_service; "" stands for None.
CanonicalService(hint) ==
  IF hint = "" THEN "" ELSE IF hint \in DOMAIN alias_map THEN alias_map[hint] ELSE hint

\* The allowed_ports of _validate_url_port: the ports of the SERVICE_TARGETS entries
\* and of the node's targets that svc selects (all of them when svc is empty).
AllowedPorts(P, svc) ==
  UNION {P.st[k].ports : k \in {k \in ServiceKeys :
                                  ~(svc # "" /\ svc # k /\ svc \notin ServiceAliases[k])}}
  \cup {P.targets[n] : n \in {n \in DOMAIN P.targets :
                                ~(svc # "" /\ svc # n /\ svc # CanonicalService(n))}}

\* _validate_url_port without its service filter: every whitelisted port is allowed.
ValidateUrlPortAnyService(P, enabled, port, service) ==
  IF ~enabled THEN TRUE ELSE port \in AllowedPorts(P, "")

ValidateUrlPort(P, enabled, port, service) ==
  IF ~enabled THEN TRUE ELSE port \in AllowedPorts(P, CanonicalService(service))

\* RelayNode._whitelist_service_port: the changed flag and the tables after the call.
WhitelistServicePort(P, service, port, require_probe, listening) ==
  LET svc == IF CanonicalService(service) # "" THEN CanonicalService(service) ELSE service
  IN IF svc = "" \/ port <= 0 \/ svc \notin ServiceKeys
       THEN [changed |-> FALSE, P |-> P]
     ELSE IF require_probe /\ port \notin listening
       THEN [changed |-> FALSE, P |-> P]
     ELSE
       LET added == port \notin P.st[svc].ports
           st1 == [P.st EXCEPT ![svc].ports = @ \cup {port}]
           target_key == ServiceTargetKey[svc]
           base_hint == IF target_key \in DOMAIN P.targets
                          THEN P.targets[target_key] ELSE P.st[svc].endpoint
       IN IF port # base_hint
            THEN [changed |-> TRUE,
                  P |-> [st |-> [st1 EXCEPT ![svc].endpoint = port],
                         targets |-> DictPut(P.targets, target_key, port)]]
            ELSE [changed |-> added, P |-> [st |-> st1, targets |-> P.targets]]

\* _ensure_port_whitelisted without its host check: a host that is not the service's
\* is treated as the service's.
EnsurePortWhitelistedAnyHost(P, enabled, port, service, detected, listening, host_mismatch) ==
  LET svc == CanonicalService(service)
      W1 == IF detected # 0
              THEN WhitelistServicePort(P, svc, detected, TRUE, listening)
              ELSE [changed |-> FALSE, P |-> P]
      W2 == WhitelistServicePort(W1.P, svc, port, FALSE, listening)
  IN IF ~enabled THEN [ok |-> TRUE, P |-> P]
     ELSE IF svc = "" THEN [ok |-> FALSE, P |-> P]
     ELSE IF W1.changed /\ ValidateUrlPort(W1.P, enabled, port, svc)
       THEN [ok |-> TRUE, P |-> W1.P]
     ELSE IF port \in listening
       THEN [ok |-> ValidateUrlPort(W2.P, enabled, port, svc), P |-> W2.P]
     ELSE [ok |-> FALSE, P |-> W1.P]

\* RelayNode._ensure_port_whitelisted: the answer and the tables after the call.
\* detected is the port read from the service's log (0: none), listening the ports a
\* TCP probe reaches, host_mismatch whether the URL's host differs from the service's.
EnsurePortWhitelisted(P, enabled, port, service, detected, listening, host_mismatch) ==
  LET svc == CanonicalService(service)
      W1 == IF detected # 0
              THEN WhitelistServicePort(P, svc, detected, TRUE, listening)
              ELSE [changed |-> FALSE, P |-> P]
      W2 == WhitelistServicePort(W1.P, svc, port, FALSE, listening)
  IN IF ~enabled THEN [ok |-> TRUE, P |-> P]
     ELSE IF svc = "" THEN [ok |-> FALSE, P |-> P]
     ELSE IF W1.changed /\ ~host_mismatch /\ ValidateUrlPort(W1.P, enabled, port, svc)
       THEN [ok |-> TRUE, P |-> W1.P]
     ELSE IF host_mismatch THEN [ok |-> FALSE, P |-> W1.P]
     ELSE IF port \in listening
       THEN [ok |-> ValidateUrlPort(W2.P, enabled, port, svc), P |-> W2.P]
     ELSE [ok |-> FALSE, P |-> W1.P]

\* RelayNode._resolve_url: the port of the URL the worker will call (0: ValueError)
\* and the tables after the call. req.url is the port of an explicit URL (0: none).
\* url is the port of the URL that was validated, ensured the number of calls of
\* _ensure_port_whitelisted, mismatch whether such a call met a host that is not the
\* service's, error the message of the ValueError.
ResolveUrl(P, enabled, req, detected, listening, host_mismatch) ==
  LET svc_raw == req.service
      svc == CanonicalService(svc_raw)
      target_key == IF svc \in ServiceKeys THEN ServiceTargetKey[svc]
                    ELSE IF svc_raw # "" THEN svc_raw ELSE svc
      base == IF target_key \in DOMAIN P.targets THEN P.targets[target_key]
              ELSE IF svc \in DOMAIN P.targets THEN P.targets[svc] ELSE 0
      port == IF req.url # 0 THEN req.url ELSE base
      mismatch == req.url # 0 /\ host_mismatch
      E == EnsurePortWhitelisted(P, enabled, port, svc, detected, listening, mismatch)
  IN IF port = 0
       THEN [port |-> 0, P |-> P, url |-> 0, ensured |-> 0, mismatch |-> FALSE,
             error |-> "unknown service"]
     ELSE IF ValidateUrlPort(P, enabled, port, svc)
       THEN [port |-> port, P |-> P, url |-> port, ensured |-> 0, mismatch |-> FALSE,
             error |-> ""]
     ELSE IF E.ok
       THEN [port |-> port, P |-> E.P, url |-> port, ensured |-> 1, mismatch |-> mismatch,
             error |-> ""]
     ELSE [port |-> 0, P |-> E.P, url |-> port, ensured |-> 1, mismatch |-> mismatch,
           error |-> "port isolation"]

\* The requests of the jobs: service and target name the service, url is the port of
\* an explicit URL or 0 when the URL is to be resolved from the service.
PortReqs == {req \in [service : {"", "whisper_asr", "asr", "ollama_farm"},
                       target : {"", "whisper_asr"},
                       url : {0} \cup Ports] : req.target # "" => req.service = ""}

\* What the tail of a service's log can show: no port, or the port the service moved to.
Detections == {0, 80}

\* RelayNode._process_request up to the HTTP call, within _http_worker: the URL is
\* resolved and, unless that raises, the request is issued; when it raises the worker
\* answers the client with a failed relay.response and, for a port isolation error,
\* records a blocked flow.
ProcessRequest ==
  \E req \in PortReqs, detected \in Detections, listening \in Listenings, host_mismatch \in BOOLEAN :
    LET P == [st |-> SERVICE_TARGETS, targets |-> targets]
        R == ResolveUrl(P, port_isolation_enabled, req, detected, listening, host_mismatch)
        hint == IF req.service # "" THEN req.service ELSE req.target
        service_name == IF CanonicalService(hint) # "" THEN CanonicalService(hint)
                        ELSE primary_service
    IN /\ SERVICE_TARGETS' = R.P.st
       /\ targets' = R.P.targets
       /\ pt_last' = IF R.port = 0
                       THEN [kind |-> "error", url |-> R.url, ensured |-> R.ensured,
                             mismatch |-> R.mismatch,
                             isolation |-> port_isolation_enabled,
                             whitelisted |-> ValidateUrlPort(R.P, TRUE, R.url,
                                                             CanonicalService(req.service)),
                             blocked |-> R.error = "port isolation",
                             response |-> [event |-> "relay.response", ok |-> FALSE,
                                           status |-> 0, error |-> R.error]]
                       ELSE [kind |-> "issued", service |-> service_name, port |-> R.port,
                             isolation |-> port_isolation_enabled,
                             ensured |-> R.ensured, mismatch |-> R.mismatch,
                             whitelisted |-> R.port \in AllowedPorts(R.P, service_name)]
       /\ UNCHANGED <<now, uploadVars, permVars, streamVars, requestVars, routerVars, restVars,
                      port_isolation_enabled>>

\* Router._update_service_ports, for one service of its loop: a port found in the
\* service's log and reached by a probe joins the service's ports and becomes its
\* endpoint; the Router's target is aligned, and the configuration marked for saving,
\* when the target's URL differs from the one the port gives.
UpdateServicePorts ==
  \E svc \in ServiceKeys, detected \in Detections, listening \in Listenings :
    LET target_key == ServiceTargetKey[svc]
        existing_base == router_targets[target_key]
    IN /\ detected \in listening
       /\ SERVICE_TARGETS' = [SERVICE_TARGETS EXCEPT ![svc].ports = @ \cup {detected},
                                                     ![svc].endpoint = detected]
       /\ router_targets' = IF detected # existing_base
                              THEN [router_targets EXCEPT ![target_key] = detected]
                              ELSE router_targets
       /\ config_dirty' = IF detected # existing_base THEN TRUE ELSE config_dirty
       /\ UNCHANGED <<now, uploadVars, permVars, streamVars, requestVars, routerVars,
                      redirectVars, bridgeVars, dmVars, simpleVars, workerVars, linesVars,
                      targets, port_isolation_enabled, pt_last>>

\* Router._save_config, called when the flag is set: the configuration is written and
\* the flag cleared.
SaveConfig ==
  /\ config_dirty
  /\ config_dirty' = FALSE
  /\ UNCHANGED <<now, baseVars, bridgeVars, dmVars, simpleVars, workerVars, linesVars,
                 router_targets>>

\* A call of RelayNode._validate_url_port(url, service): the URL's port is its own or,
\* when it has none (0), 443 for https and 80 otherwise.
ValidateUrl ==
  \E url \in {u \in [scheme : {"http", "https"}, port : {0} \cup Ports] :
                  u.scheme = "https" => u.port = 0},
     service \in {"whisper_asr", "asr", "ollama_farm", "ollama"} :
    LET P == [st |-> SERVICE_TARGETS, targets |-> targets]
        port == IF url.port # 0 THEN url.port ELSE IF url.scheme = "https" THEN 443 ELSE 80
    IN /\ pt_last' = [kind |-> "validated", url |-> url, service |-> service,
                      port |-> port, isolation |-> port_isolation_enabled,
                      ok |-> ValidateUrlPort(P, port_isolation_enabled, port, service)]
       /\ UNCHANGED <<now, uploadVars, permVars, streamVars, requestVars, routerVars, restVars,
                      SERVICE_TARGETS, targets, port_isolation_enabled>>

\* The operator switches port isolation on or off.
ToggleIsolation ==
  /\ port_isolation_enabled' = ~port_isolation_enabled
  /\ UNCHANGED <<now, uploadVars, permVars, streamVars, requestVars, routerVars, restVars,
                 SERVICE_TARGETS, targets, pt_last>>

PortInit ==
  /\ now = 1
  /\ UploadIdle
  /\ PermIdle
  /\ StreamIdle
  /\ RequestIdle
  /\ RouterIdle
  /\ PortIdle
  /\ RestIdle

PortNext ==
  \/ ProcessRequest
  \/ UpdateServicePorts
  \/ SaveConfig
  \/ ToggleIsolation

SpecPorts == PortInit /\ [][PortNext]_vars

\* URLs are validated while the discovery loop extends the whitelists and the operator
\* switches the isolation.
SpecValidate == PortInit /\ [][ValidateUrl \/ UpdateServicePorts \/ SaveConfig \/ ToggleIsolation]_vars

\* ------------------------------------------------ assignment check and redirect

\* The names a request can give its service: none, a service, one of its aliases, or
\* the name of a service for which the Router has no node.
SvcAliases == [sA |-> {"sA", "a"}, sB |-> {"sB", "b"}]
SvcTargetKey == [sA |-> "a", sB |-> "b"]
Hints == {"", "sA", "a", "sB", "b", "sX"}

\* The service a name stands for in SERVICE_TARGETS.
ServiceOf(hint) ==
  IF \E svc \in Services : hint \in SvcAliases[svc]
    THEN CHOOSE svc \in Services : hint \in SvcAliases[svc]
    ELSE ""

\* RelayNode.alias_map of node o: the aliases of its primary service.
NodeAliasMap(o) == [n \in SvcAliases[rt_obj[o].svc] |-> rt_obj[o].svc]

\* RelayNode._canonical_service at node o.
CanonicalAt(o, hint) ==
  IF hint = "" THEN "" ELSE IF hint \in DOMAIN NodeAliasMap(o) THEN NodeAliasMap(o)[hint] ELSE hint

\* Router._build_targets_for_service: the targets of node o name the base URL of its
\* primary service under each alias of that service.
NodeTargets(o) == [n \in SvcAliases[rt_obj[o].svc] |-> rt_obj[o].svc]

\* Router.lookup_assignment.
LookupAssignment(service_name) ==
  LET node_id == AssignGet(service_assignments, service_name)
  IN [node |-> node_id,
      addr |-> IF node_id \in DOMAIN node_addresses THEN node_addresses[node_id] ELSE NoAddr]

\* RelayNode._check_assignment at node o: the answer and the messages handed to dm.
CheckAssignment(o, service_name, src, rid) ==
  LET result == LookupAssignment(service_name)
  IN IF service_name = "" THEN [ok |-> TRUE, out |-> <<>>]
     ELSE IF result.node # NoNode /\ result.node # IdOf(o)
       THEN [ok |-> FALSE,
             out |-> <<[event |-> "relay.redirect", to |-> src, service |-> service_name,
                        id |-> rid, node |-> result.node, addr |-> result.addr,
                        offline |-> result.addr = NoAddr]>>]
     ELSE [ok |-> TRUE, out |-> <<>>]

\* _handle_dm of node o on http.request: the assignment check, then the job.
HandleRequestAt(o, src, rid, req, followed) ==
  LET canonical == CanonicalAt(o, req.service)
      C == CheckAssignment(o, canonical, src, rid)
      owner == AssignGet(service_assignments, ServiceOf(req.service))
  IN /\ Len(rd_jobs[o]) < MaxJobs
     /\ rd_jobs' = IF C.ok
                     THEN [rd_jobs EXCEPT ![o] = Append(@, [src |-> src, id |-> rid, req |-> req,
                                                            followed |-> followed])]
                     ELSE rd_jobs
     /\ rd_event' = [kind |-> "arrive", node |-> IdOf(o), req |-> req, followed |-> followed,
                     owner |-> owner,
                     owner_addr |-> IF owner \in DOMAIN node_addresses
                                      THEN node_addresses[owner] ELSE NoAddr,
                     out |-> C.out, enqueued |-> C.ok]
     /\ rd_pending' = IF C.ok THEN <<>>
                      ELSE <<[req |-> req, src |-> src, id |-> rid, node |-> C.out[1].node,
                              addr |-> C.out[1].addr, asg |-> service_assignments]>>

\* A client sends a request to a node.
RecvRequestAt(o) ==
  \E src \in Srcs, rid \in UploadRids, hint \in Hints, url \in BOOLEAN :
    /\ o \in 1..Len(rt_obj)
    /\ rt_obj[o].running
    /\ HandleRequestAt(o, src, rid, [service |-> hint, url |-> url], FALSE)
    /\ UNCHANGED <<now, uploadVars, permVars, streamVars, requestVars, routerVars, portVars, laterVars>>

\* The client that got a redirect with an address sends the same request to the node
\* the redirect names, the assignment map being what it was when the redirect was made.
FollowRedirect ==
  /\ rd_pending # <<>>
  /\ rd_pending[1].addr # NoAddr
  /\ rd_pending[1].asg = service_assignments
  /\ LET o == rd_pending[1].node[2]
     IN /\ o \in 1..Len(rt_obj)
        /\ rt_obj[o].running
        /\ HandleRequestAt(o, rd_pending[1].src, rd_pending[1].id, rd_pending[1].req, TRUE)
  /\ UNCHANGED <<now, uploadVars, permVars, streamVars, requestVars, routerVars, portVars, laterVars>>

\* RelayNode._resolve_url at node o without the port check: the service whose base URL
\* the worker calls, "explicit" for the URL of the request, "" for ValueError.
ResolveAt(o, req) ==
  LET svc == CanonicalAt(o, req.service)
      target_key == IF svc \in Services THEN SvcTargetKey[svc] ELSE req.service
  IN IF req.url THEN "explicit"
     ELSE IF target_key \in DOMAIN NodeTargets(o) THEN NodeTargets(o)[target_key]
     ELSE IF svc \in DOMAIN NodeTargets(o) THEN NodeTargets(o)[svc]
     ELSE ""

\* _http_worker of node o: a job is taken and processed; the HTTP call is made unless
\* _resolve_url raises, and then the error response is sent.
WorkerProcessAt(o) ==
  /\ o \in 1..Len(rt_obj)
  /\ rd_jobs[o] # <<>>
  /\ LET job == Head(rd_jobs[o])
     IN rd_event' = [kind |-> "processed", node |-> IdOf(o), req |-> job.req,
                     followed |-> job.followed, called |-> ResolveAt(o, job.req)]
  /\ rd_jobs' = [rd_jobs EXCEPT ![o] = Tail(@)]
  /\ UNCHANGED <<now, uploadVars, permVars, streamVars, requestVars, routerVars, portVars, laterVars,
                 rd_pending>>

\* Router._update_node_address: the bridge of node o reports its address.
UpdateNodeAddress(o) ==
  /\ o \in 1..Len(rt_obj)
  /\ IdOf(o) \in DOMAIN node_addresses
  /\ node_addresses[IdOf(o)] = NoAddr
  /\ node_addresses' = [node_addresses EXCEPT ![IdOf(o)] = <<"addr", o>>]
  /\ UNCHANGED <<now, uploadVars, permVars, streamVars, requestVars, portVars, restVars,
                 rt_obj, rt_nodes, service_nodes, service_assignments, rate_limit_state,
                 rt_callers, rt_threads, rt_due, rt_streaks>>

RedirectInit ==
  /\ now = 1
  /\ UploadIdle
  /\ PermIdle
  /\ StreamIdle
  /\ RequestIdle
  /\ RouterIdle
  /\ PortIdle
  /\ RestIdle

RedirectNext ==
  \/ \E o \in FirstNodes : RecvRequestAt(o)
  \/ FollowRedirect
  \/ \E o \in FirstNodes : WorkerProcessAt(o)
  \/ \E o \in FirstNodes : UpdateNodeAddress(o)
  \/ \E svc \in Services : CycleService(svc)

SpecRedirect == RedirectInit /\ [][RedirectNext]_vars

\* ------------------------------------------- BridgeManager: the child's supervisor

\* BridgeManager.start under the lock, called by a thread; T is br_threads without the
\* caller when the caller ends with the call. mutated: the child is spawned whether or
\* not self.proc is alive.
BridgeStartAlways(T, ok) ==
  IF ~ok
    THEN /\ br_event' = [kind |-> "start", alive |-> FALSE, spawned |-> FALSE, stopped |-> br_stop]
         /\ br_threads' = T
         /\ UNCHANGED <<br_children, br_proc, br_backoff, br_ready, br_addr>>
    ELSE /\ Len(br_children) < MaxChildren
         /\ br_children' = Append(br_children, "alive")
         /\ br_proc' = Len(br_children) + 1
         /\ br_backoff' = BRIDGE_MIN_S
         /\ br_ready' = NoAddr
         /\ br_addr' = ""
         /\ br_threads' = Append(T, [kind |-> "pump", pc |-> "new", p |-> 0])
         /\ br_event' = [kind |-> "start", alive |-> FALSE, spawned |-> TRUE, stopped |-> br_stop]

\* BridgeManager.start under the lock, called by a thread; T is br_threads without the
\* caller when the caller ends with the call, ok whether Popen succeeds. A live child
\* makes the call return at once; a spawn clears the address, sets the backoff to
\* BRIDGE_MIN_S and starts the stdout reader.
BridgeStart(T, ok) ==
  LET alive == br_proc # 0 /\ br_children[br_proc] = "alive"
  IN IF alive \/ ~ok
       THEN /\ br_event' = [kind |-> "start", alive |-> alive, spawned |-> FALSE, stopped |-> br_stop]
            /\ br_threads' = T
            /\ UNCHANGED <<br_children, br_proc, br_backoff, br_ready, br_addr>>
       ELSE /\ Len(br_children) < MaxChildren
            /\ br_children' = Append(br_children, "alive")
            /\ br_proc' = Len(br_children) + 1
            /\ br_backoff' = BRIDGE_MIN_S
            /\ br_ready' = NoAddr
            /\ br_addr' = ""
            /\ br_threads' = Append(T, [kind |-> "pump", pc |-> "new", p |-> 0])
            /\ br_event' = [kind |-> "start", alive |-> FALSE, spawned |-> TRUE, stopped |-> br_stop]

\* RelayNode.start calls bridge.start(); a node that was stopped is not started again
\* (the Router makes a new node).
ExternalStart ==
  \E ok \in BOOLEAN :
    /\ br_starts < MaxStarts
    /\ ~br_stop
    /\ br_starts' = br_starts + 1
    /\ BridgeStart(br_threads, ok)
    /\ UNCHANGED <<now, baseVars, moreVars, dmVars, simpleVars, br_stop, br_delays>>

\* The child process exits.
ChildExit(c) ==
  /\ c \in 1..Len(br_children)
  /\ br_children[c] = "alive"
  /\ br_children' = [br_children EXCEPT ![c] = "dead"]
  /\ UNCHANGED <<now, baseVars, moreVars, dmVars, simpleVars, br_proc, br_stop, br_backoff, br_ready, br_addr, br_threads,
                 br_delays, br_starts, br_event>>

\* _stdout_pump begins: p = self.proc.
PumpBegin(t) ==
  /\ t \in 1..Len(br_threads)
  /\ br_threads[t].kind = "pump"
  /\ br_threads[t].pc = "new"
  /\ br_threads' = [br_threads EXCEPT ![t].pc = "loop", ![t].p = br_proc]
  /\ UNCHANGED <<now, baseVars, moreVars, dmVars, simpleVars, br_children, br_proc, br_stop, br_backoff, br_ready, br_addr,
                 br_delays, br_starts, br_event>>

\* _stdout_pump: stop is not set and readline returns a ready message of the child.
PumpRead(t) ==
  /\ t \in 1..Len(br_threads)
  /\ br_threads[t].kind = "pump"
  /\ br_threads[t].pc = "loop"
  /\ ~br_stop
  /\ br_threads' = [br_threads EXCEPT ![t].pc = "ready"]
  /\ UNCHANGED <<now, baseVars, moreVars, dmVars, simpleVars, br_children, br_proc, br_stop, br_backoff, br_ready, br_addr,
                 br_delays, br_starts, br_event>>

\* _stdout_pump: the ready message is handled, on_ready(address).
PumpReady(t) ==
  /\ t \in 1..Len(br_threads)
  /\ br_threads[t].kind = "pump"
  /\ br_threads[t].pc = "ready"
  /\ br_ready' = "nkn"
  /\ br_addr' = "nkn"
  /\ br_delays' = <<>>
  /\ br_threads' = [br_threads EXCEPT ![t].pc = "loop"]
  /\ UNCHANGED <<now, baseVars, moreVars, dmVars, simpleVars, br_children, br_proc, br_stop, br_backoff, br_starts,
                 br_event>>

\* _stdout_pump leaves its loop (stop is set, or the pipe is at its end and the child
\* has exited) and calls _restart_later: nothing when stop is set; otherwise the delay
\* is the backoff, the backoff doubles up to BRIDGE_MAX_S, on_ready(None), and the
\* thread that sleeps and then starts the child is created.
PumpEnd(t) ==
  /\ t \in 1..Len(br_threads)
  /\ br_threads[t].kind = "pump"
  /\ br_threads[t].pc = "loop"
  /\ br_stop \/ br_threads[t].p = 0 \/ br_children[br_threads[t].p] = "dead"
  /\ IF br_stop
       THEN /\ br_threads' = RemoveAt(br_threads, t)
            /\ UNCHANGED <<br_backoff, br_ready, br_addr, br_delays>>
       ELSE /\ br_delays' = Append(br_delays, br_backoff)
            /\ br_backoff' = IF br_backoff * 2 < BRIDGE_MAX_S THEN br_backoff * 2
                             ELSE BRIDGE_MAX_S
            /\ br_ready' = NoAddr
            /\ UNCHANGED br_addr
            /\ br_threads' = [br_threads EXCEPT ![t] = [kind |-> "kick", pc |-> "sleep", p |-> 0]]
  /\ UNCHANGED <<now, baseVars, moreVars, dmVars, simpleVars, br_children, br_proc, br_stop, br_starts, br_event>>

\* _kick: the sleep is over and stop is tested.
KickWake(t) ==
  /\ t \in 1..Len(br_threads)
  /\ br_threads[t].kind = "kick"
  /\ br_threads[t].pc = "sleep"
  /\ br_threads' = IF br_stop THEN RemoveAt(br_threads, t)
                   ELSE [br_threads EXCEPT ![t].pc = "start"]
  /\ UNCHANGED <<now, baseVars, moreVars, dmVars, simpleVars, br_children, br_proc, br_stop, br_backoff, br_ready, br_addr,
                 br_delays, br_starts, br_event>>

\* _kick: self.start().
KickStart(t) ==
  \E ok \in BOOLEAN :
    /\ t \in 1..Len(br_threads)
    /\ br_threads[t].kind = "kick"
    /\ br_threads[t].pc = "start"
    /\ BridgeStart(RemoveAt(br_threads, t), ok)
    /\ UNCHANGED <<now, baseVars, moreVars, dmVars, simpleVars, br_stop, br_delays, br_starts>>

\* BridgeManager.shutdown: stop is set, the child, if alive, is told to terminate (its
\* exit is ChildExit), on_ready(None).
Shutdown ==
  /\ ~br_stop
  /\ br_stop' = TRUE
  /\ br_ready' = NoAddr
  /\ UNCHANGED br_addr
  /\ UNCHANGED <<now, baseVars, moreVars, dmVars, simpleVars, br_children, br_proc, br_backoff, br_threads, br_delays,
                 br_starts, br_event>>

BridgeInit ==
  /\ now = 1
  /\ UploadIdle
  /\ PermIdle
  /\ StreamIdle
  /\ RequestIdle
  /\ RouterIdle
  /\ PortIdle
  /\ RestIdle

BridgeThreads == 1..(MaxChildren + 1)

BridgeNext ==
  \/ ExternalStart
  \/ \E c \in 1..MaxChildren : ChildExit(c)
  \/ \E t \in BridgeThreads : PumpBegin(t)
  \/ \E t \in BridgeThreads : PumpRead(t)
  \/ \E t \in BridgeThreads : PumpReady(t)
  \/ \E t \in BridgeThreads : PumpEnd(t)
  \/ \E t \in BridgeThreads : KickWake(t)
  \/ \E t \in BridgeThreads : KickStart(t)
  \/ Shutdown

SpecBridge == BridgeInit /\ [][BridgeNext]_vars

\* ------------------------------------------- BridgeManager.dm called by several threads

\* The threads that call bridge.dm (HTTP workers, the bridge's reader).
DmCallers == {"t1", "t2"}

\* dm: put_nowait(payload); it raises queue.Full when the queue holds SEND_QUEUE_MAX.
DmPut(c) ==
  /\ dq_callers[c].pc = "idle"
  /\ dq_next < MaxMsgs
  /\ dq_next' = dq_next + 1
  /\ LET msg == dq_next + 1
     IN IF Len(dq) < SEND_QUEUE_MAX
          THEN /\ dq' = Append(dq, msg)
               /\ dq_event' = [kind |-> "dm", msg |-> msg, enqueued |-> TRUE, full |-> FALSE]
               /\ UNCHANGED dq_callers
          ELSE /\ dq_callers' = [dq_callers EXCEPT ![c] = [pc |-> "get", msg |-> msg]]
               /\ UNCHANGED <<dq, dq_event>>
  /\ UNCHANGED <<now, baseVars, moreVars, simpleVars, bridgeVars>>

\* dm after queue.Full: get_nowait() takes the oldest entry (queue.Empty is suppressed).
DmGet(c) ==
  /\ dq_callers[c].pc = "get"
  /\ dq' = IF dq = <<>> THEN dq ELSE Tail(dq)
  /\ dq_callers' = [dq_callers EXCEPT ![c].pc = "put"]
  /\ UNCHANGED <<now, baseVars, moreVars, simpleVars, bridgeVars, dq_next, dq_event>>

\* dm after queue.Full: the second put_nowait(payload) (queue.Full is suppressed) and
\* the return.
DmPutAgain(c) ==
  /\ dq_callers[c].pc = "put"
  /\ LET msg == dq_callers[c].msg
         room == Len(dq) < SEND_QUEUE_MAX
     IN /\ dq' = IF room THEN Append(dq, msg) ELSE dq
        /\ dq_event' = [kind |-> "dm", msg |-> msg, enqueued |-> room, full |-> TRUE]
  /\ dq_callers' = [dq_callers EXCEPT ![c] = [pc |-> "idle", msg |-> 0]]
  /\ UNCHANGED <<now, baseVars, moreVars, simpleVars, bridgeVars, dq_next>>

\* _sender_loop: send_q.get takes the oldest entry.
SenderGet ==
  /\ dq # <<>>
  /\ dq' = Tail(dq)
  /\ UNCHANGED <<now, baseVars, moreVars, simpleVars, bridgeVars, dq_callers, dq_next, dq_event>>

DmInit ==
  /\ now = 1
  /\ UploadIdle
  /\ PermIdle
  /\ StreamIdle
  /\ RequestIdle
  /\ RouterIdle
  /\ PortIdle
  /\ RestIdle

DmNext ==
  \/ \E c \in DmCallers : DmPut(c)
  \/ \E c \in DmCallers : DmGet(c)
  \/ \E c \in DmCallers : DmPutAgain(c)
  \/ SenderGet

SpecDm == DmInit /\ [][DmNext]_vars

\* ----------------------------------------------------------- the single response

\* The bodies an upstream service answers with: byte strings of up to MaxBodyLen bytes.
RECURSIVE Bodies(_)
Bodies(n) ==
  IF n = 0 THEN {<<>>}
  ELSE Bodies(n - 1) \cup {Append(b, x) : b \in {b \in Bodies(n - 1) : Len(b) = n - 1}, x \in {0, 1}}

\* base64.b64encode(raw).decode("ascii"): the text that decodes to raw.
B64Encode(raw) == [b64 |-> raw]

\* resp.json(): the value parsed from the whole of resp.content.
RespJson(content) == [parsed |-> content]

\* The worker has got the upstream's response: its body, whether its Content-Type holds
\* application/json, and whether the body parses as JSON.
UpstreamAnswers ==
  \E content \in Bodies(MaxBodyLen), is_json \in BOOLEAN, parses \in BOOLEAN :
    /\ sr_resp = <<>>
    /\ sr_resp' = <<[content |-> content, is_json |-> is_json, parses |-> parses]>>
    /\ UNCHANGED <<now, baseVars, moreVars, bridgeVars, dmVars, sr_event>>

\* RelayNode._send_simple_response: the relay.response message handed to bridge.dm.
\* <<>> stands for None in json and body_b64.
SendSimpleResponse ==
  /\ sr_resp # <<>>
  /\ LET resp == sr_resp[1]
         truncated == Len(resp.content) > max_body
         raw == IF truncated THEN SubSeq(resp.content, 1, max_body) ELSE resp.content
     IN sr_event' = [kind |-> "response", content |-> resp.content,
                     truncated |-> truncated,
                     json |-> IF resp.is_json /\ resp.parses
                              THEN <<RespJson(resp.content)>> ELSE <<>>,
                     body_b64 |-> IF resp.is_json /\ resp.parses
                                  THEN <<>> ELSE <<B64Encode(raw)>>]
  /\ sr_resp' = <<>>
  /\ UNCHANGED <<now, baseVars, moreVars, bridgeVars, dmVars>>

SimpleInit ==
  /\ now = 1
  /\ UploadIdle
  /\ PermIdle
  /\ StreamIdle
  /\ RequestIdle
  /\ RouterIdle
  /\ PortIdle
  /\ RestIdle

SimpleNext ==
  \/ UpstreamAnswers
  \/ SendSimpleResponse

SpecSimple == SimpleInit /\ [][SimpleNext]_vars

\* ------------------------------------------------------------ the worker's loop

\* One worker of a RelayNode and the jobs it drains. depth_any is the service whose
\* definition sets default_stream.
default_stream == [ollama_farm |-> FALSE, depth_any |-> TRUE]

\* A worker that does not copy the status of the target's answer into its messages.
WorkMsgWithoutStatus(event, ok, status) ==
  [event |-> event, to |-> wk_cur[1].src, id |-> wk_cur[1].id, ok |-> ok, status |-> 0]

\* The messages the worker hands to bridge.dm for the job it processes; status is 0
\* where the message has none.
WorkMsg(event, ok, status) ==
  [event |-> event, to |-> wk_cur[1].src, id |-> wk_cur[1].id, ok |-> ok, status |-> status]

\* An except clause that reports the failure as a success.
ErrorResponseOk(job) ==
  [event |-> "relay.response", to |-> job.src, id |-> job.id, ok |-> TRUE, status |-> 0]

\* _http_worker's except clause: the relay.response with ok false and status 0.
ErrorResponse(job) ==
  [event |-> "relay.response", to |-> job.src, id |-> job.id, ok |-> FALSE, status |-> 0]

\* The log after calls attempts, the answers they got and the messages handed to
\* bridge.dm; done tells that _process_request returned or raised, failure what
\* failed, if anything did.
WorkLogged(calls, answers, msgs, done, failure) ==
  [wk_log EXCEPT !.calls = @ + calls, !.answers = @ \o answers, !.msgs = @ \o msgs,
                 !.done = done, !.failure = failure]

\* RelayNode._enqueue_request: jobs.put of a job; the jobs are numbered as they are put.
\* A job's req tells what _resolve_url does with it (it returns a URL, or raises
\* ValueError for an unknown service or for a port that isolation rejects), the stream
\* mode it asks for, and its service.
EnqueueJob ==
  \E src \in {"cA", "cB"},
     req \in [service : {"ollama_farm", "depth_any"},
              resolve : {"url", "unknown service", "port isolation"},
              stream : {"", "lines"}] :
    /\ req.resolve # "url" => req.service = "ollama_farm" /\ req.stream = ""
    /\ wk_put < MaxWorkJobs
    /\ ~wk_stopped
    /\ wk_put' = wk_put + 1
    /\ wk_jobs' = Append(wk_jobs, <<[src |-> src, id |-> wk_put + 1, req |-> req]>>)
    /\ UNCHANGED <<now, baseVars, bridgeVars, dmVars, simpleVars, lateVars,
                   wk_pc, wk_cur, wk_attempt, wk_mode, wk_seq, wk_stopped, wk_log>>

\* RelayNode.stop: jobs.put(None) for the worker; the bridge is shut down and brings
\* no further request.
NodeStop ==
  /\ ~wk_stopped
  /\ wk_stopped' = TRUE
  /\ wk_jobs' = Append(wk_jobs, <<>>)
  /\ UNCHANGED <<now, baseVars, bridgeVars, dmVars, simpleVars, lateVars,
                 wk_pc, wk_cur, wk_attempt, wk_mode, wk_seq, wk_put, wk_log>>

\* _http_worker: jobs.get(); None ends the loop. Otherwise _process_request begins:
\* _resolve_url raises, and the except clause answers, or the first attempt of
\* _http_request_with_retry is due (with no attempt allowed it raises RuntimeError).
WorkerGet ==
  /\ wk_pc = "get"
  /\ wk_jobs # <<>>
  /\ wk_jobs' = Tail(wk_jobs)
  /\ IF Head(wk_jobs) = <<>>
       THEN /\ wk_pc' = "exited"
            /\ UNCHANGED <<wk_cur, wk_attempt, wk_log>>
     ELSE LET job == Head(wk_jobs)[1]
              log == [id |-> job.id, src |-> job.src, req |-> job.req, calls |-> 0,
                      waits |-> <<>>, answers |-> <<>>, msgs |-> <<>>, done |-> FALSE,
                      failure |-> ""]
          IN IF job.req.resolve # "url" \/ retry_attempts = 0
               THEN /\ wk_log' = [log EXCEPT !.msgs = <<ErrorResponse(job)>>, !.done = TRUE,
                                              !.failure = IF job.req.resolve # "url"
                                                          THEN job.req.resolve
                                                          ELSE "transport"]
                    /\ UNCHANGED <<wk_pc, wk_cur, wk_attempt>>
             ELSE /\ wk_pc' = "request"
                  /\ wk_cur' = <<job>>
                  /\ wk_attempt' = 0
                  /\ wk_log' = log
  /\ UNCHANGED <<now, baseVars, bridgeVars, dmVars, simpleVars, lateVars,
                 wk_mode, wk_seq, wk_stopped, wk_put>>

\* The sleep of _http_request_with_retry after attempt number attempt (from 0) raised,
\* without the cap.
RetryWaitUncapped(attempt) == retry_backoff * 2 ^ attempt

\* The sleep of _http_request_with_retry after attempt number attempt (from 0) raised.
RetryWait(attempt) ==
  IF retry_backoff * 2 ^ attempt < retry_cap THEN retry_backoff * 2 ^ attempt ELSE retry_cap

\* One attempt of _http_request_with_retry and, when it is the last or the target
\* answers, the rest of _process_request up to the first byte of a streamed body:
\* an attempt that raised is followed by the sleep, and the exception of the last
\* attempt then reaches the worker's except clause; an answer is
\* relayed by _send_simple_response, or opens a stream with relay.response.begin in
\* the mode _infer_stream_mode gives. session.request raises a RequestException, or
\* returns a response a with its status, whether its Content-Type names a line stream,
\* and whether its body can be read: resp.content of a response opened with
\* stream=True may raise, while without stream=True the body is read inside
\* session.request.
SessionRequest ==
  \E raises \in BOOLEAN,
     a \in [status : {200, 429, 500}, ctype_lines : BOOLEAN, readable : BOOLEAN] :
    /\ wk_pc = "request"
    /\ ~a.readable => a.status = 429
    /\ raises => a = [status |-> 200, ctype_lines |-> FALSE, readable |-> TRUE]
    /\ LET job == wk_cur[1]
           req == job.req
           want_stream == req.stream # "" \/ default_stream[req.service]
           last == wk_attempt + 1 >= retry_attempts
           simple == WorkMsg("relay.response", TRUE, a.status)
           begin == WorkMsg("relay.response.begin", a.status < 400, a.status)
       IN IF raises
            THEN /\ wk_attempt' = wk_attempt + 1
                 /\ wk_pc' = IF last THEN "get" ELSE "request"
                 /\ wk_cur' = IF last THEN <<>> ELSE wk_cur
                 /\ wk_log' = [(IF last THEN WorkLogged(1, <<>>, <<ErrorResponse(job)>>, TRUE,
                                                        "transport")
                                ELSE WorkLogged(1, <<>>, <<>>, FALSE, ""))
                                 EXCEPT !.waits = Append(@, RetryWait(wk_attempt))]
                 /\ UNCHANGED <<wk_mode, wk_seq>>
          ELSE IF want_stream /\ a.status # 429
            THEN /\ wk_pc' = "stream"
                 /\ wk_mode' = IF req.stream = "lines" \/ a.ctype_lines THEN "lines" ELSE "chunks"
                 /\ wk_seq' = 0
                 /\ wk_log' = WorkLogged(1, <<a.status>>, <<begin>>, FALSE, "")
                 /\ UNCHANGED <<wk_cur, wk_attempt>>
          ELSE /\ wk_pc' = "get"
               /\ wk_cur' = <<>>
               /\ wk_log' = IF a.readable \/ ~want_stream
                              THEN WorkLogged(1, <<a.status>>, <<simple>>, TRUE, "")
                              ELSE WorkLogged(1, <<a.status>>, <<ErrorResponse(job)>>, TRUE,
                                              "body")
               /\ UNCHANGED <<wk_attempt, wk_mode, wk_seq>>
    /\ UNCHANGED <<now, baseVars, bridgeVars, dmVars, simpleVars, lateVars, wk_jobs, wk_stopped, wk_put>>

\* _stream_chunks and _stream_lines: resp.iter_content yields data, raises, or ends.
\* Data goes out as a relay.response.chunk or as a batch of lines; an exception is
\* answered with relay.response.end, ok false; at the end of the body _stream_chunks
\* sends relay.response.end, ok true, and _stream_lines returns.
IterContent ==
  \E what \in {"data", "raises", "ends"} :
    /\ wk_pc = "stream"
    /\ what = "data" => wk_seq < MaxChunks
    /\ LET data == WorkMsg(IF wk_mode = "lines" THEN "relay.response.lines"
                           ELSE "relay.response.chunk", TRUE, 0)
           end(ok) == WorkMsg("relay.response.end", ok, 0)
       IN IF what = "data"
            THEN /\ wk_seq' = wk_seq + 1
                 /\ wk_log' = WorkLogged(0, <<>>, <<data>>, FALSE, "")
                 /\ UNCHANGED <<wk_pc, wk_cur>>
          ELSE /\ wk_pc' = "get"
               /\ wk_cur' = <<>>
               /\ wk_log' = WorkLogged(0, <<>>,
                                       IF what = "raises" THEN <<end(FALSE)>>
                                       ELSE IF wk_mode = "chunks" THEN <<end(TRUE)>> ELSE <<>>,
                                       TRUE, IF what = "raises" THEN "stream" ELSE "")
               /\ UNCHANGED wk_seq
    /\ UNCHANGED <<now, baseVars, bridgeVars, dmVars, simpleVars, lateVars,
                   wk_jobs, wk_attempt, wk_mode, wk_stopped, wk_put>>

\* The steps of the worker thread.
WorkerStep ==
  \/ WorkerGet
  \/ SessionRequest
  \/ IterContent

WorkerNext ==
  \/ EnqueueJob
  \/ NodeStop
  \/ WorkerGet
  \/ SessionRequest
  \/ IterContent

SpecWorker == RequestInit /\ [][WorkerNext]_vars

\* The worker thread runs: it takes a job that waits, an attempt returns or raises
\* within its timeout, and the body of a response comes to an end.
SpecWorkerFair == RequestInit /\ [][WorkerNext]_vars /\ WF_vars(WorkerStep)

\* ------------------------------------------------------------ line framing in time

\* _stream_lines reads one non-empty line of the body: it joins the batch, and the
\* batch is flushed when it then holds batch_lines lines or batch_latency has passed
\* since the last flush.
ReadLine ==
  /\ ln_pc = "read"
  /\ ln_seq < MaxLines
  /\ LET batch == Append(ln_batch, ln_seq + 1)
         flush == Len(batch) >= batch_lines \/ (ln_clock - ln_last_flush) >= batch_latency
     IN /\ ln_seq' = ln_seq + 1
        /\ ln_batch' = IF flush THEN <<>> ELSE batch
        /\ ln_sent' = IF flush THEN Append(ln_sent, batch) ELSE ln_sent
        /\ ln_last_flush' = IF flush THEN ln_clock ELSE ln_last_flush
  /\ UNCHANGED <<now, baseVars, bridgeVars, dmVars, simpleVars, workerVars, configVars,
                 ln_pc, ln_clock>>

\* Time passes while resp.iter_content waits for the next bytes of the body.
LinesWait ==
  /\ ln_pc = "read"
  /\ ln_clock < MaxClock
  /\ ln_clock' = ln_clock + 1
  /\ UNCHANGED <<now, baseVars, bridgeVars, dmVars, simpleVars, workerVars, configVars,
                 ln_pc, ln_last_flush, ln_batch, ln_seq, ln_sent>>

\* The body ends: the undelimited tail, when there is one, joins the batch, and
\* flush_batch sends what waits.
LinesFinish ==
  \E tail \in BOOLEAN :
    /\ ln_pc = "read"
    /\ tail => ln_seq < MaxLines
    /\ LET seq == IF tail THEN ln_seq + 1 ELSE ln_seq
           batch == IF tail THEN Append(ln_batch, seq) ELSE ln_batch
       IN /\ ln_seq' = seq
          /\ ln_batch' = <<>>
          /\ ln_sent' = IF batch = <<>> THEN ln_sent ELSE Append(ln_sent, batch)
          /\ ln_last_flush' = IF batch = <<>> THEN ln_last_flush ELSE ln_clock
    /\ ln_pc' = "done"
    /\ UNCHANGED <<now, baseVars, bridgeVars, dmVars, simpleVars, workerVars, configVars,
                   ln_clock>>

\* The read of the body raises: the except clause sends the failed end message and
\* returns; the batch that waits is not sent.
LinesFail ==
  /\ ln_pc = "read"
  /\ ln_pc' = "failed"
  /\ UNCHANGED <<now, baseVars, bridgeVars, dmVars, simpleVars, workerVars, configVars,
                 ln_clock, ln_last_flush, ln_batch, ln_seq, ln_sent>>

\* One streamed body in line framing, its lines arriving at any times.
SpecLines == RequestInit /\ [][ReadLine \/ LinesWait \/ LinesFinish \/ LinesFail]_vars

\* ------------------------------------------------------------ ping and info

\* str.lower on the events of the messages a client sends for a ping or for the node's
\* description.
Lower(event) == IF event = "PING" THEN "ping" ELSE event

\* The relay.pong of _handle_dm, mutated: the address is the one the node was last
\* told by on_ready.
PongOfReady(src) ==
  [event |-> "relay.pong", to |-> src, ts |-> now, addr |-> IF br_ready = NoAddr THEN "" ELSE br_ready]

\* The relay.pong of _handle_dm: to the source, with the bridge's address.
Pong(src) ==
  [event |-> "relay.pong", to |-> src, ts |-> now, addr |-> br_addr]

\* RelayNode._handle_dm, called by a stdout reader of the bridge that is in its loop, on
\* a message whose event is a ping or an info: one message is handed to bridge.dm and
\* the handler returns.
HandleDm ==
  \E src \in {"cA", "cB"}, event \in {"ping", "relay.ping", "PING", "relay.info"} :
    /\ \E t \in 1..Len(br_threads) : br_threads[t].kind = "pump" /\ br_threads[t].pc = "loop"
    /\ emitted' = IF Lower(event) \in {"relay.ping", "ping"}
                    THEN <<Pong(src)>>
                    ELSE <<[event |-> "relay.info", to |-> src, ts |-> now, addr |-> br_addr]>>
    /\ up_event' = [kind |-> "dm", event |-> event, src |-> src]
    /\ up_final' = <<>>
    /\ UNCHANGED <<now, notUpload, upload_sessions, jobs, sweep_todo, sweep_next, sweep_raced,
                   up_by_seq, up_live, up_named, up_asked, up_promoted>>

\* Pings arrive while an upload of MaxTotal chunks is made, a worker begins a chunked
\* response, which enters the replay cache, and the bridge's child starts and reports its
\* address until the node shuts the bridge down.
PingNext ==
  \/ HandleDm
  \/ RecvUploadBeginOf({"req"}, {MaxTotal})
  \/ RecvUploadChunkOf(1..MaxTotal, {<<1>>}, {""}, {0})
  \/ RecvUploadEnd
  \/ StreamBeginOf("w1", StreamRids, {"chunks"})
  \/ StreamChunkOf("w1", StreamData)
  \/ ExternalStart
  \/ \E t \in BridgeThreads : PumpBegin(t)
  \/ \E t \in BridgeThreads : PumpRead(t)
  \/ \E t \in BridgeThreads : PumpReady(t)
  \/ Shutdown

SpecPing == UploadInit /\ [][PingNext]_vars

C6_BodyInSeqOrder ==
  (up_final # <<>> /\ Cardinality(DOMAIN up_final[1].by_seq) = up_final[1].entry.got) =>
    LET f == up_final[1]
        seqs == SetToSeq(DOMAIN f.by_seq)
        total == IF f.entry.total > 0 THEN f.entry.total ELSE Len(f.entry.chunks)
    IN /\ f.body = Concat([i \in 1..Len(seqs) |-> f.by_seq[seqs[i]]])
       /\ Len(f.body) <= total * chunk_upload_b

\* C7: two nodes that are sent the same upload, its chunks in two different orders,
\* enqueue the same body when they finalize it.
C7_SameBodyForAnyOrder ==
  perm_pc = PermLen + 2 =>
    /\ Len(perm_a.j) = 1
    /\ Len(perm_b.j) = 1
    /\ perm_a.j[1].body = perm_b.j[1].body

\* C3: every streaming response that the worker has finished handling, in either
\* framing and on upstream success or failure, was given exactly one relay.response.end.
C3_ExactlyOneEnd ==
  \A r \in 1..Len(st_log) : st_log[r].done => Len(st_log[r].ends) = 1

\* C4: within one response the seq values handed to dm (resends excepted) are 1, 2, 3,
\* ... in emission order, and last_seq of its end is the largest seq emitted (0 when
\* none was).
C4_SeqsAndLastSeq ==
  \A r \in 1..Len(st_log) :
    /\ st_log[r].seqs = [i \in 1..Len(st_log[r].seqs) |-> i]
    /\ \A k \in 1..Len(st_log[r].ends) : st_log[r].ends[k] = Len(st_log[r].seqs)

IsData(rec) == rec.event \in {"relay.response.chunk", "relay.response.lines"}

\* C5: among the records written to the bridge child for one streaming response, no
\* chunk or lines record comes before the begin record, none but a resend comes after
\* the end record, and begin comes before end.
C5_WrittenInOrder ==
  \A i, j \in 1..Len(written) :
    (i < j /\ written[i].resp = written[j].resp) =>
      /\ ~(written[j].event = "relay.response.begin" /\ IsData(written[i]))
      /\ ~(written[j].event = "relay.response.begin"
            /\ written[i].event = "relay.response.end")
      /\ ~(written[i].event = "relay.response.end" /\ IsData(written[j])
            /\ ~written[j].resend)

\* C5: the begin, a chunk or lines record and the end of one response have been written
\* while another response was being streamed.
C5_Witness ==
  \E i, j, k \in 1..Len(written) :
    /\ i < j /\ j < k
    /\ written[i].resp = written[j].resp /\ written[j].resp = written[k].resp
    /\ written[i].event = "relay.response.begin"
    /\ IsData(written[j])
    /\ written[k].event = "relay.response.end"
    /\ \E m \in 1..Len(written) : m < k /\ written[m].resp # written[k].resp

\* C9: a node never has two jobs with the same request id queued or being processed
\* at the same time, and a request whose id is that of an already completed request
\* produces no job.
C9_OneJobPerRequestId ==
  /\ \A r \in RequestIds : InFlight(r) <= 1
  /\ (rq_event.kind = "request" /\ rq_event.completed > 0) => ~rq_event.enqueued

\* The node ids a run can make.
AllNodeIds == {NodeId(svc, seed) : svc \in Services, seed \in Seeds}

Replaced(svc, id) ==
  /\ id[2] \in 1..Len(rt_obj)
  /\ ~rt_obj[id[2]].running
  /\ \A k \in 1..Len(rt_nodes) : rt_nodes[k] # id[2]
  /\ \E o \in 1..Len(rt_obj) :
       /\ o > id[2]
       /\ rt_obj[o].running
       /\ AssignGet(service_assignments, svc) = IdOf(o)
       /\ IdOf(o) # id

\* C10: when the node serving a service has had 429 responses for 60 s or more, then
\* eventually that node is stopped and replaced by a node made from a new seed, the
\* service is assigned to the new node, and the new node's id differs from the old one
\* (unless the operator has moved the service since).
C10_EventuallyReplaced ==
  \A svc \in Services : \A id \in AllNodeIds :
    (rt_due[svc] = id) ~> (Replaced(svc, id) \/ rt_due[svc] = NoNode)

\* C1: with port isolation enabled, every HTTP request a worker issues for a job (URL
\* resolved from the service or given explicitly, with or without a service name) goes
\* to a port that is, when the request is issued, in the whitelist of the job's
\* service: its static ports united with the configured target port.
C1_IssuedPortWhitelisted ==
  (pt_last.kind = "issued" /\ pt_last.isolation) => pt_last.whitelisted

\* C11: for each service at most one seed rotation is in progress at any time, however
\* the workers that report 429 responses and a running rotation interleave.
C11_OneRotationPerService ==
  \A svc \in Services :
    Cardinality({t \in 1..Len(rt_threads) : rt_threads[t].svc = svc}) <= 1

\* C12: when a request for a service arrives at a node while the assignment map gives
\* that service to another node, the node sends exactly one relay.redirect to the
\* source, carrying the owning node's id and its address, and enqueues no job.
C12_RedirectWhenAssignedElsewhere ==
  (/\ rd_event.kind = "arrive"
   /\ rd_event.owner # NoNode
   /\ rd_event.owner # rd_event.node)
  => /\ Len(rd_event.out) = 1
     /\ rd_event.out[1].event = "relay.redirect"
     /\ rd_event.out[1].node = rd_event.owner
     /\ rd_event.out[1].addr = rd_event.owner_addr
     /\ ~rd_event.enqueued

\* C13: the request a redirect answered, sent again to the node the redirect names with
\* no assignment change in between, is accepted without a further redirect and the
\* node calls the target of the request's service.
C13_FollowedRedirectCompletes ==
  /\ (rd_event.kind = "arrive" /\ rd_event.followed)
       => (rd_event.enqueued /\ rd_event.out = <<>>)
  /\ (rd_event.kind = "processed" /\ rd_event.followed /\ ~rd_event.req.url)
       => rd_event.called = ServiceOf(rd_event.req.service)

\* C14: when a relay.response.missing for request id r and a seq is handled while a
\* chunked response of r that ended ok and emitted that seq is still within its
\* retention (its cache timer has not fired), exactly one relay.response.chunk is
\* emitted again and its b64 is the payload that response emitted for that seq.
C14_ReplayEqualsOriginal ==
  st_missing.kind = "missing" =>
    \A k \in st_missing.window : st_missing.out = <<cache_chunks[k][st_missing.seq]>>

\* The i-th restart delay of the claimed schedule, in half seconds: 0.5 s doubled
\* i - 1 times, at most 30 s.
ClaimedDelay(i) == IF 2 ^ (i - 1) < BRIDGE_MAX_S THEN BRIDGE_MIN_S * 2 ^ (i - 1) ELSE BRIDGE_MAX_S

\* C15: the restart delays chosen since the last ready message (or since construction)
\* are 0.5, 1, 2, 4, 8, 16, 30, 30, ... seconds: nothing but a ready message makes
\* the sequence start again at 0.5.
C15_DelaysDoubleUntilReady ==
  \A i \in 1..Len(br_delays) : br_delays[i] = ClaimedDelay(i)

\* C17: at most one child process is alive, and a start() call that finds the child
\* alive spawns nothing, whatever the interleaving of start() calls, delayed restart
\* threads and stdout readers.
C17_AtMostOneChildAlive ==
  /\ Cardinality({c \in 1..Len(br_children) : br_children[c] = "alive"}) <= 1
  /\ (br_event.kind = "start" /\ br_event.alive) => ~br_event.spawned

\* A start() call found the child alive after a restart had been scheduled and a
\* second child spawned, while a stdout reader runs.
C17_Witness ==
  /\ br_event.kind = "start"
  /\ br_event.alive
  /\ Len(br_children) >= 2
  /\ br_delays # <<>>
  /\ br_threads # <<>>

\* C18: once shutdown() has returned, no start() call spawns a child and the address
\* published through on_ready stays absent.
C18_NothingAfterShutdown ==
  /\ (br_event.kind = "start" /\ br_event.stopped) => ~br_event.spawned
  /\ br_stop => br_ready = NoAddr

\* C16: the send queue never holds more than SEND_QUEUE_MAX entries, and every dm call
\* that has returned has put its message into the queue (dropping the oldest entry
\* when the queue was full), whatever the interleaving of the calling threads.
C16_NewMessageNeverLost ==
  /\ Len(dq) <= SEND_QUEUE_MAX
  /\ dq_event.kind = "dm" => dq_event.enqueued

\* The chunks list of the entry the last step stored into: the session's, or that of
\* the entry the step finalized.
C19_Chunks ==
  IF up_event.uid \in DOMAIN upload_sessions THEN upload_sessions[up_event.uid].chunks
  ELSE IF up_final # <<>> THEN up_final[1].entry.chunks
  ELSE <<>>

\* C19: a chunk message that meets or opens a session and whose decoded payload is
\* exactly chunk_upload_b bytes long is stored in its slot (slot seq of an announced
\* total, seq being within it; the next slot otherwise) and answered with no error;
\* one whose payload is one byte longer is answered with the error response 413,
\* stores nothing, and leaves no session under its upload id.
C19_ChunkSizeLimit ==
  (up_event.kind = "chunk" /\ up_event.met) =>
    /\ (Len(up_event.raw) = chunk_upload_b /\ up_event.raw # BadB64
         /\ (up_event.total > 0 => up_event.seq \in 1..up_event.total)) =>
          /\ emitted = <<>> \/ emitted[Len(emitted)].event # "relay.response"
          /\ C19_Chunks # <<>>
          /\ C19_Chunks[IF up_event.total > 0 THEN up_event.seq ELSE Len(C19_Chunks)]
               = up_event.raw
    /\ Len(up_event.raw) = chunk_upload_b + 1 =>
          /\ emitted = <<UploadError(up_event.src, up_event.rid, "chunk too large", 413)>>
          /\ up_event.uid \notin DOMAIN upload_sessions
          /\ up_final = <<>>

\* A chunk one byte over the limit met or opened a session, and no session is left
\* under its upload id.
C19_Witness ==
  /\ up_event.kind = "chunk"
  /\ up_event.met
  /\ Len(up_event.raw) = chunk_upload_b + 1
  /\ up_event.uid \notin DOMAIN upload_sessions

\* The bytes of the upstream body that the last relay.response carries, in its json or
\* in its body_b64.
C20_Carried ==
  IF sr_event.json # <<>> THEN sr_event.json[1].parsed ELSE sr_event.body_b64[1].b64

\* C20: in a single response truncated is false exactly when the upstream body is at
\* most max_body bytes long, and what the message embeds, as JSON or as base64, is no
\* more than the first max_body bytes of the upstream body.
C20_TruncatedAtMaxBody ==
  sr_event.kind = "response" =>
    /\ sr_event.truncated = (Len(sr_event.content) > max_body)
    /\ Len(C20_Carried) <= max_body
    /\ C20_Carried = SubSeq(sr_event.content, 1, Len(C20_Carried))

\* C21: a first http.upload.missing for a session is emitted no earlier than 2 s after
\* the session's end was received (later ones follow a request already made), its
\* missing list is exactly the unfilled sequence numbers and the request time is
\* recorded; and when the cleanup loop has completed a pass, no session is left that
\* has ended, has unfilled slots, has had no resend requested and whose end was
\* received 2 s ago or more.
C21_ResendAfterGrace ==
  /\ \A i \in 1..Len(emitted) :
       (/\ emitted[i].event = "http.upload.missing"
        /\ emitted[i].upload_id \in DOMAIN upload_sessions
        /\ up_event.kind \in {"sweep_retry", "sweep_finish"} => up_event.live) =>
         LET e == upload_sessions[emitted[i].upload_id]
         IN /\ up_asked[emitted[i].upload_id] = now => now - e.end_received_time >= GraceS
            /\ emitted[i].missing = SetToSeq(Missing(e))
            /\ e.missing_requested = now
  /\ (up_event.kind \in {"scan", "sweep_retry", "sweep_finish", "sweep_error"}
      /\ sweep_todo = <<>>) =>
       \A u \in DOMAIN upload_sessions :
         LET e == upload_sessions[u]
         IN (e.ended /\ Missing(e) # {} /\ e.missing_requested = 0)
              => now - e.end_received_time < GraceS

\* C22: when the cleanup loop has completed a pass, no session is left that has ended,
\* has unfilled slots, and whose first resend request was emitted 10 s ago or more:
\* the pass has finalized it with the partial body, whatever the client sent since.
C22_GiveUpAfterTenSeconds ==
  (up_event.kind \in {"scan", "sweep_retry", "sweep_finish", "sweep_error"}
   /\ sweep_todo = <<>>) =>
    \A u \in DOMAIN upload_sessions :
      LET e == upload_sessions[u]
      IN (e.ended /\ Missing(e) # {} /\ up_asked[u] # 0) => now - up_asked[u] < GiveUpS

\* C23: with isolation enabled, validating a URL for a service, named by its key or by
\* an alias, allows it if and only if the URL's port (80 or 443 by scheme when the URL
\* names none) is in that service's combined whitelist: the static ports of the
\* service and the port of its configured target; with isolation disabled every URL
\* is allowed.
C23_ServiceKey(service) ==
  IF \E k \in ServiceKeys : service \in {k} \cup ServiceAliases[k]
    THEN CHOOSE k \in ServiceKeys : service \in {k} \cup ServiceAliases[k]
    ELSE ""

C23_CombinedWhitelist(service) ==
  LET key == C23_ServiceKey(service)
  IN IF key = "" THEN {}
     ELSE SERVICE_TARGETS[key].ports
          \cup {targets[n] : n \in DOMAIN targets \cap ({key} \cup ServiceAliases[key])}

C23_AllowedIffWhitelisted ==
  [][(/\ pt_last' # pt_last
      /\ pt_last'.kind = "validated"
      /\ pt_last'.service # "") =>
       /\ pt_last'.port = (IF pt_last'.url.port # 0 THEN pt_last'.url.port
                           ELSE IF pt_last'.url.scheme = "https" THEN 443 ELSE 80)
       /\ pt_last'.isolation = port_isolation_enabled
       /\ pt_last'.isolation =>
            (pt_last'.ok <=> pt_last'.port \in C23_CombinedWhitelist(pt_last'.service))
       /\ ~pt_last'.isolation => pt_last'.ok]_vars

\* An http URL without a port is allowed for a service named by its alias once port 80
\* has joined the service's whitelist, while isolation is on.
C23_Witness ==
  /\ pt_last.kind = "validated"
  /\ pt_last.isolation
  /\ pt_last.service = "asr"
  /\ pt_last.url.port = 0
  /\ pt_last.ok
  /\ pt_last.port = 80

\* The job the worker took last asked for the single-response framing and its URL
\* resolved: its service is assigned to the node, its target configured, its port
\* whitelisted, and neither its req nor its service's definition asks for a stream.
C24_Generic ==
  /\ wk_log.id # 0
  /\ wk_log.req.resolve = "url"

C24_Single ==
  /\ C24_Generic
  /\ wk_log.req.stream = ""
  /\ ~default_stream[wk_log.req.service]

C24_Responses == SelectSeq(wk_log.msgs, LAMBDA m : m.event = "relay.response")

\* C24 as worded: a request whose URL resolves causes exactly one HTTP call and, when
\* the target answers, exactly one relay.response, with ok true and the status of the
\* answer.
C24_AsWorded ==
  (C24_Generic /\ wk_log.done) =>
    /\ wk_log.calls = 1
    /\ wk_log.answers # <<>> =>
         /\ Len(C24_Responses) = 1
         /\ C24_Responses[1].ok
         /\ C24_Responses[1].status = wk_log.answers[1]

\* C24, amended: a request for the single-response framing whose URL resolves causes
\* at least one and at most retry_attempts HTTP calls, a further call being made only
\* after the one before raised a transport exception; when the target answers, the
\* worker hands over exactly one message, a relay.response to the job's source with
\* ok true and the status of the answer, and makes no further call; and every job put
\* in the queue is processed to its end.
C24_Safety ==
  C24_Single =>
    /\ wk_log.calls <= retry_attempts
    /\ Len(wk_log.answers) <= 1
    /\ wk_log.calls - Len(wk_log.answers) = (IF wk_log.done /\ wk_log.answers = <<>>
                                              THEN retry_attempts
                                              ELSE IF wk_log.done THEN wk_log.calls - 1
                                              ELSE wk_attempt)
    /\ wk_log.done => wk_log.calls >= 1
    /\ wk_log.answers # <<>> =>
         /\ wk_log.done
         /\ wk_log.msgs = <<[event |-> "relay.response", to |-> wk_log.src, id |-> wk_log.id,
                             ok |-> TRUE, status |-> wk_log.answers[1]]>>

C24_CallsUntilAnswered ==
  /\ []C24_Safety
  /\ \A j \in 1..MaxWorkJobs :
       (\E i \in 1..Len(wk_jobs) : wk_jobs[i] # <<>> /\ wk_jobs[i][1].id = j)
         ~> (wk_log.id = j /\ wk_log.done)

\* The target answered 500 to the second attempt, after the first raised.
C24_Witness ==
  /\ C24_Single
  /\ wk_log.done
  /\ wk_log.calls = 2
  /\ wk_log.answers = <<500>>
  /\ Len(C24_Responses) = 1

\* What the worker handed to bridge.dm for the job it took last is one relay.response
\* with ok false, to the job's source, and the worker is back at jobs.get(): it waits
\* there, or a later None has ended its loop.
C25_OneErrorResponse ==
  /\ Len(wk_log.msgs) = 1
  /\ wk_log.msgs[1].event = "relay.response"
  /\ ~wk_log.msgs[1].ok
  /\ wk_log.msgs[1].to = wk_log.src
  /\ wk_log.msgs[1].id = wk_log.id
  /\ wk_cur = <<>>
  /\ wk_pc \in {"get", "exited"}

\* C25 as worded: whatever fails while the worker processes a job, the worker hands
\* over exactly one relay.response with ok false to the job's source and no begin,
\* chunk, lines or end message.
C25_AsWorded ==
  (wk_log.done /\ wk_log.failure # "") => C25_OneErrorResponse

\* C25, amended: a failure before the first message of a response (an unknown service,
\* a port-isolation rejection, a transport failure of every attempt, the unreadable
\* body of a 429 answer: the exceptions _process_request raises) yields exactly one
\* relay.response with ok false to the job's source and no other message, while a
\* failure in the body of a streamed response yields, after its begin and the chunks
\* or lines already sent, one relay.response.end with ok false and no relay.response;
\* in both cases the worker then takes the next job, and it leaves its loop only when
\* it dequeues the None that stop() put.
C25_Safety ==
  wk_log.done =>
    /\ wk_log.failure \in {"unknown service", "port isolation", "transport", "body"} =>
         C25_OneErrorResponse
    /\ wk_log.failure = "stream" =>
         /\ wk_log.msgs[1].event = "relay.response.begin"
         /\ wk_log.msgs[Len(wk_log.msgs)] = [event |-> "relay.response.end", to |-> wk_log.src,
                                            id |-> wk_log.id, ok |-> FALSE, status |-> 0]
         /\ \A i \in 2..(Len(wk_log.msgs) - 1) :
              wk_log.msgs[i].event \in {"relay.response.chunk", "relay.response.lines"}
         /\ wk_cur = <<>>
         /\ wk_pc \in {"get", "exited"}

C25_FailureAnsweredOnce ==
  /\ []C25_Safety
  /\ [][wk_pc' = "exited" => (wk_pc = "exited" \/ (wk_jobs # <<>> /\ Head(wk_jobs) = <<>>))]_vars
  /\ \A j \in 1..MaxWorkJobs :
       (/\ wk_log.done
        /\ wk_log.failure # ""
        /\ wk_jobs # <<>>
        /\ Head(wk_jobs) # <<>>
        /\ Head(wk_jobs)[1].id = j) ~> (wk_log.id = j)

\* Every attempt for a job raised, the worker has answered with the error response, and
\* the next job waits in the queue.
C25_Witness ==
  /\ wk_log.done
  /\ wk_log.failure = "transport"
  /\ wk_log.calls = retry_attempts
  /\ C25_OneErrorResponse
  /\ wk_jobs # <<>>
  /\ Head(wk_jobs) # <<>>

C27_DirtyAfterWhitelistChange ==
  [][(\/ \E k \in ServiceKeys : \/ SERVICE_TARGETS'[k].ports # SERVICE_TARGETS[k].ports
                               \/ SERVICE_TARGETS'[k].endpoint # SERVICE_TARGETS[k].endpoint
      \/ targets' # targets
      \/ router_targets' # router_targets) => config_dirty']_vars

C29_AtMostOneJob ==
  \A u \in DOMAIN up_promoted : up_promoted[u] <= 1

\* C30: while the cleanup loop runs, every upload session that enters the table is
\* eventually removed from it, whatever begin, chunk and end messages the client sent.
C30_EverySessionRemoved ==
  \A u \in UploadIds : (u \in DOMAIN upload_sessions) ~> (u \notin DOMAIN upload_sessions)

\* C31: in every session whose total is known, got is the number of filled slots; and a
\* begin merged into a session that holds chunks keeps the payloads stored.
C31_GotCountsFilledSlots ==
  /\ [](\A u \in DOMAIN upload_sessions :
         LET e == upload_sessions[u]
         IN e.total > 0 => e.got = Len(e.chunks) - Cardinality(Missing(e)))
  /\ [][\A u \in DOMAIN upload_sessions :
         (up_event'.kind = "begin" /\ up_event'.uid = u /\ u \in DOMAIN upload_sessions') =>
           \A i \in 1..Len(upload_sessions[u].chunks) :
             upload_sessions[u].chunks[i] # None =>
               \E k \in 1..Len(upload_sessions'[u].chunks) :
                 upload_sessions'[u].chunks[k] = upload_sessions[u].chunks[i]]_vars

\* C32: the node id the assignment map gives for a service is the id of a node the
\* Router holds and has not stopped. Stated for the states in which no rotation is in
\* progress; while one is, between the stop of the old node and the rebinding, the
\* service of the rotation is assigned to the stopped node as well.
C32_AssignedNodeHeld ==
  (rt_threads = <<>>) =>
    \A svc \in Services :
      \E k \in 1..Len(rt_nodes) :
        /\ rt_obj[rt_nodes[k]].running
        /\ AssignGet(service_assignments, svc) = IdOf(rt_nodes[k])

\* C33: no step gives a service's endpoint or a node's target a port other than one
\* announced in the service's log; a request for another port, granted after a probe
\* of that port, adds the port to the whitelist and leaves endpoint and target alone.
C33_TargetOnlyFromLog ==
  [][/\ \A k \in ServiceKeys :
          SERVICE_TARGETS'[k].endpoint # SERVICE_TARGETS[k].endpoint =>
            SERVICE_TARGETS'[k].endpoint \in Detections \ {0}
     /\ \A n \in DOMAIN targets' :
          (n \notin DOMAIN targets \/ targets'[n] # targets[n]) =>
            targets'[n] \in Detections \ {0}]_vars

\* C34: with isolation on, a job whose URL port is not whitelisted calls the on-demand
\* whitelisting once; when the port is not whitelisted after it, or the URL's host is
\* not the service's, the job ends without an HTTP request, with a failed
\* relay.response that carries the port isolation error and a blocked flow record; and
\* a request that was issued after the whitelisting found the host the service's.
C34_PortIsolationAbort ==
  /\ (pt_last.kind \in {"issued", "error"} /\ pt_last.ensured = 1) => pt_last.isolation
  /\ (pt_last.kind = "issued" /\ pt_last.ensured = 1) =>
       (~pt_last.mismatch /\ pt_last.whitelisted)
  /\ (pt_last.kind = "error" /\ pt_last.url # 0) =>
       /\ pt_last.ensured = 1
       /\ pt_last.mismatch \/ ~pt_last.whitelisted
       /\ pt_last.blocked
       /\ pt_last.response = [event |-> "relay.response", ok |-> FALSE, status |-> 0,
                              error |-> "port isolation"]

\* A request for a port that was not whitelisted, at a host that is not the service's,
\* was aborted although the on-demand whitelisting had whitelisted the port.
C34_Witness ==
  /\ pt_last.kind = "error"
  /\ pt_last.ensured = 1
  /\ pt_last.mismatch
  /\ pt_last.whitelisted
  /\ pt_last.blocked

\* C35: a chunk whose seq is below 1 or above the known total is answered with a single
\* failed relay.response of status 400 to its source, is stored in no session and makes
\* no job, and the upload session is gone after it.
C35_RangeChunkDestroysSession ==
  [][(up_event'.kind = "chunk" /\ up_event'.class = "range") =>
       /\ emitted' = <<UploadError(up_event'.src, up_event'.rid, "chunk seq out of range", 400)>>
       /\ jobs' = jobs
       /\ up_event'.uid \notin DOMAIN upload_sessions']_vars

\* C36: a session that has received no chunk 20 s after its creation, ended or not, is
\* taken from the table by the cleanup loop only with the 408 answer to its source and
\* without a job.
C36_NoChunkTimesOut ==
  [][\A u \in DOMAIN upload_sessions :
       LET e == upload_sessions[u]
       IN (/\ e.got = 0
           /\ now - e.created >= StaleS
           /\ up_event'.kind \in {"sweep_retry", "sweep_finish", "sweep_error"}
           /\ up_event'.uid = u
           /\ u \notin DOMAIN upload_sessions') =>
            /\ jobs' = jobs
            /\ emitted' = <<UploadError(e.src, e.rid,
                                        "upload timed out before chunks arrived", 408)>>]_vars

\* C37: when a request names a service that the assignment map gives to no node, the
\* node sends one relay.redirect with the error note to the source and enqueues no job.
C37_RedirectWhenUnassigned ==
  (/\ rd_event.kind = "arrive"
   /\ rd_event.req.service # ""
   /\ rd_event.owner = NoNode)
  => /\ Len(rd_event.out) = 1
     /\ rd_event.out[1].event = "relay.redirect"
     /\ rd_event.out[1].offline
     /\ ~rd_event.enqueued

\* C38: for one job the worker makes at most retry_attempts HTTP attempts; an attempt
\* is made only when every attempt before it raised and none was answered; the wait
\* after the k-th attempt raised, before attempt k+1, is the smaller of
\* retry_backoff * 2^(k-1) and retry_cap; and when every attempt raised the job ends
\* with the error response and no other message.
C38_RetryWithBackoff ==
  /\ [](/\ wk_log.calls <= retry_attempts
        /\ Len(wk_log.answers) <= 1
        /\ \A k \in 1..Len(wk_log.waits) :
             \/ wk_log.waits[k] = retry_backoff * 2 ^ (k - 1) /\ wk_log.waits[k] <= retry_cap
             \/ wk_log.waits[k] = retry_cap /\ retry_cap <= retry_backoff * 2 ^ (k - 1)
        /\ (wk_log.id # 0 /\ Len(wk_log.waits) = retry_attempts) =>
             /\ wk_log.done
             /\ wk_log.answers = <<>>
             /\ wk_log.msgs = <<[event |-> "relay.response", to |-> wk_log.src,
                                 id |-> wk_log.id, ok |-> FALSE, status |-> 0]>>)
  /\ [][(wk_log'.id = wk_log.id /\ wk_log'.calls > wk_log.calls) =>
          /\ wk_log'.calls = wk_log.calls + 1
          /\ wk_log.answers = <<>>
          /\ Len(wk_log.waits) = wk_log.calls]_vars

\* Four attempts raised: the waits doubled from the backoff up to the cap, and the job
\* ended with the error response.
C38_Witness ==
  /\ wk_log.calls = retry_attempts
  /\ wk_log.waits = <<1, 2, 3, 3>>
  /\ wk_log.done
  /\ wk_log.failure = "transport"
  /\ Len(wk_log.msgs) = 1

\* The lines of the batches sent, in the order sent.
RECURSIVE C39_Flat(_)
C39_Flat(batches) ==
  IF batches = <<>> THEN <<>> ELSE Head(batches) \o C39_Flat(Tail(batches))

\* C39: in line framing the lines read are, in order and each once, in the batches sent
\* and in the batch that waits, which is empty when the body has ended; no batch holds
\* more than batch_lines lines; and a batch that waits holds fewer than batch_lines
\* lines and has waited for less than batch_latency since the last flush.
C39_BatchFlushedInTime ==
  /\ C39_Flat(ln_sent) \o ln_batch = [i \in 1..ln_seq |-> i]
  /\ \A k \in 1..Len(ln_sent) : Len(ln_sent[k]) \in 1..batch_lines
  /\ ln_pc = "done" => ln_batch = <<>>
  /\ (ln_pc = "read" /\ ln_batch # <<>>) =>
       /\ Len(ln_batch) < batch_lines
       /\ ln_clock - ln_last_flush < batch_latency

\* C40 as worded: an http.upload.end whose upload id has no live session hands no
\* message to the bridge, enqueues no job and creates no session.
C40_AsWorded ==
  [][(/\ up_event'.kind = "end"
      /\ up_event'.uid \notin DOMAIN upload_sessions) =>
       /\ emitted' = <<>>
       /\ jobs' = jobs
       /\ upload_sessions' = upload_sessions]_vars

\* C40, amended: an http.upload.end whose upload id has no live session is answered
\* with exactly one relay.response to its source, with ok false, status 404 and the
\* error "unknown upload id"; it enqueues no job and creates no session.
C40_LateEndAnswered404 ==
  [][(/\ up_event'.kind = "end"
      /\ up_event'.uid \notin DOMAIN upload_sessions) =>
       /\ emitted' = <<[event |-> "relay.response", to |-> up_event'.src,
                        id |-> up_event'.rid, ok |-> FALSE, status |-> 404,
                        error |-> "unknown upload id"]>>
       /\ jobs' = jobs
       /\ upload_sessions' = upload_sessions]_vars

\* An end has come for an upload id that has no session: it was answered with the 404,
\* and there is neither a session nor a job.
C40_Witness ==
  /\ up_event.kind = "end"
  /\ up_event.uid \notin DOMAIN upload_sessions
  /\ jobs = <<>>
  /\ Len(emitted) = 1
  /\ emitted[1].status = 404
  /\ emitted[1].to = up_event.src

====
